---------------------------- MODULE Spec2Model ----------------------------
(***************************************************************************)
(* steel-as: AS 4100 steel member and simple-connection design.            *)
(*                                                                         *)
(* Seven constructions are modelled as state machines:                     *)
(*   - the construction of a shear connection (FEPConnection and           *)
(*     WSPConnection, __post_init__), variable conn;                       *)
(*   - the construction of a section and of a member (SteelSlenderness,    *)
(*     SteelSection, SteelMember), variable mem;                           *)
(*   - the material lookup of SteelMaterial, variable material;            *)
(*   - the gross properties of SectionGeometry, variable geometry;         *)
(*   - the construction of a Bolt, Weld, Plate or BoltGroup2D and its      *)
(*     reconstruction from constr, variable component;                     *)
(*   - the construction of a FeaturedMember (copy and cope of a member),   *)
(*     variable featured;                                                  *)
(*   - the construction of a SteelSection from a given slenderness         *)
(*     argument, variable section.                                         *)
(*                                                                         *)
(* Python floats are held as fixed-point integers.  Lengths are whole      *)
(* millimetres.  Connection capacities are held in hundredths of the       *)
(* number the code computes (54768 stands for 547.68).  The float NaN is   *)
(* a sentinel with Python's comparison rules (every comparison with NaN    *)
(* is false).                                                              *)
(***************************************************************************)
EXTENDS Integers, Sequences, FiniteSets, TLC

VARIABLES conn, mem, material, geometry, component, featured, section

vars == <<conn, mem, material, geometry, component, featured, section>>

\* An object that is not under construction.
Idle == [pc |-> "idle"]

---------------------------------------------------------------------------
(* Python numerics                                                         *)

\* np.nan
NaN == -999999999

isnan(x) == x = NaN

\* x < y on floats: false when either side is NaN.
PyLt(x, y) == ~isnan(x) /\ ~isnan(y) /\ x < y

\* builtin min over the arguments in order: the running minimum is
\* replaced only by an item that compares smaller.
RECURSIVE PyMinFrom(_, _, _)
PyMinFrom(cur, s, i) ==
    IF i > Len(s) THEN cur
    ELSE PyMinFrom(IF PyLt(s[i], cur) THEN s[i] ELSE cur, s, i + 1)

\* Faulty variant: a minimum that returns NaN when any item is NaN.
NaNPropagatingMin(s) ==
    IF \E i \in 1..Len(s) : isnan(s[i]) THEN NaN ELSE PyMinFrom(s[1], s, 2)

PyMin(s) == PyMinFrom(s[1], s, 2)

\* round(n / d) for n >= 0, d > 0, ties to even.
RoundDiv(n, d) ==
    LET q == n \div d
        r == n % d
    IN  IF 2 * r > d \/ (2 * r = d /\ q % 2 = 1) THEN q + 1 ELSE q

RECURSIVE Digits(_)
Digits(v) == IF v < 10 THEN 1 ELSE 1 + Digits(v \div 10)

RECURSIVE Pow10(_)
Pow10(k) == IF k <= 0 THEN 1 ELSE 10 * Pow10(k - 1)

\* round(v, sig_figs - int(floor(log10(abs(v)))) - 1)
RoundSigAbs(v, sig_figs) ==
    IF Digits(v) <= sig_figs THEN v
    ELSE Pow10(Digits(v) - sig_figs) * RoundDiv(v, Pow10(Digits(v) - sig_figs))

\* The guard of the rounding loops: a number that is not NaN and not zero.
RoundSig(v, sig_figs) ==
    IF isnan(v) \/ v = 0 THEN v
    ELSE IF v < 0 THEN -RoundSigAbs(-v, sig_figs)
    ELSE RoundSigAbs(v, sig_figs)

\* floor(sqrt(n)) by bisection on [lo, hi).
RECURSIVE ISqrtIn(_, _, _)
ISqrtIn(n, lo, hi) ==
    IF hi - lo <= 1 THEN lo
    ELSE LET mid == (lo + hi) \div 2
         IN  IF mid * mid <= n THEN ISqrtIn(n, mid, hi) ELSE ISqrtIn(n, lo, mid)

ISqrt(n) == ISqrtIn(n, 0, 46341)

Min2(x, y) == IF y < x THEN y ELSE x

---------------------------------------------------------------------------
(* Components (component/weld.py, plate.py, bolt.py)                       *)

MaxRows == 3

\* Weld: leg t_w and phiv_w = phi * v_w = 0.8 * 0.6 * 480 * t_w / sqrt(2) / 1e3
\* in thousandths of kN/mm, as stored (3 significant figures).
Weld(t_w) ==
    [t_w |-> t_w,
     phiv_w |-> RoundSig(RoundDiv(2304 * t_w * 10000, 141421), 3)]

Welds == {Weld(8), Weld(10)}

Weld_V_a(weld, d_i) == (weld.phiv_w * 2 * d_i) \div 10

\* phiv_w * 2 * d_i / sqrt(1 + (6 e / d_i)^2)
Weld_V_a_ecc(weld, d_i, e) ==
    (weld.phiv_w * 2 * d_i * d_i) \div ISqrt(100 * (d_i * d_i + 36 * e * e))

\* Plate: f_yi and f_ui of Plate GR250 to AS 3678; an unknown grade gives
\* NaN strengths (the ValueError is caught; such a plate is built with
\* sig_figs = 0, the rounding loop cannot round NaN).
Plate(b_i, t_i, grade) ==
    [b_i |-> b_i, t_i |-> t_i,
     f_yi |-> IF grade = "GR250"
              THEN (IF t_i <= 8 THEN 280 ELSE IF t_i <= 12 THEN 260 ELSE 250)
              ELSE NaN,
     f_ui |-> IF grade = "GR250" THEN 410 ELSE NaN]

Plates == {Plate(150, 12, "GR250"), Plate(180, 12, "GR250"),
           Plate(180, 12, "GR999"), Plate(150, 8, "GR250")}

\* n_b * 0.9 * 3.2 * d_f * t_p * f_u
phiV_bb(n_b, d_f, t_p, f_u) ==
    IF isnan(f_u) \/ isnan(t_p) THEN NaN ELSE n_b * 288 * d_f * t_p * f_u

\* n_b * 0.9 * a_e * t_p * f_u
phiV_bt(n_b, a_e, t_p, f_u) ==
    IF isnan(f_u) \/ isnan(t_p) THEN NaN ELSE n_b * 90 * a_e * t_p * f_u

\* round(0.9 * 0.5 * f_yi * d_i * t_i / 1e3, 2)
Plate_phiV_v(plate, d_i) ==
    IF isnan(plate.f_yi) THEN NaN
    ELSE RoundDiv(45 * plate.f_yi * d_i * plate.t_i, 1000)

\* round(0.9 * f_yi * t_i * d_i^2 / 4, 2) / e / 1e3
Plate_phiM_si_ecc(plate, d_i, e) ==
    IF isnan(plate.f_yi) THEN NaN
    ELSE (((9 * plate.f_yi * plate.t_i * d_i) \div 4) * d_i) \div (100 * e)

\* round(0.75 * (A_nt * f_ui + 0.6 * A_gv * f_yi) / 1e3, 2)
Plate_phiV_bs(plate, l_t, l_v) ==
    IF isnan(plate.f_yi) \/ isnan(plate.f_ui) THEN NaN
    ELSE RoundDiv(75 * l_t * plate.t_i * plate.f_ui
                  + 45 * l_v * plate.t_i * plate.f_yi, 1000)

\* Bolt M20 8.8/S, threads included: phiV_f = 92.7 kN.
Bolt ==
    [d_f |-> 20, d_h |-> 22, a_e_min |-> (3 * 20) \div 2, phiV_f |-> 9270]

\* BoltGroup2D with two columns; phiV_df as stored (3 significant figures).
BoltGroup2D(n_p, s_p, s_g) ==
    [n_p |-> n_p, n_g |-> 2, s_p |-> s_p, s_g |-> s_g, bolt |-> Bolt,
     n_b |-> n_p * 2,
     phiV_df |-> RoundSig(n_p * 2 * Bolt.phiV_f, 3)]

BoltGroups == {BoltGroup2D(n_p, 70, 70) : n_p \in 1..MaxRows}

d_hp(bg) == (bg.n_p - 1) * bg.s_p

d_hg(bg) == (bg.n_g - 1) * bg.s_g

a_ey_bc(bg) == bg.s_p - bg.bolt.d_h \div 2 - 1

a_ex_bc(bg) == bg.s_g - bg.bolt.d_h \div 2 - 1

a_ey(bg, a_ev_e) == Min2(a_ev_e - 1, a_ey_bc(bg))

a_ex(bg, a_eh_e) == Min2(a_eh_e - 1, a_ex_bc(bg))

l_vy(bg, a_ev_e) == a_ev_e + d_hp(bg)

l_ty(bg, a_eh_e) == a_eh_e + bg.s_g - (3 * bg.bolt.d_h) \div 2

\* Eccentricity factors of the bolt group, in thousandths.
I_bp12(bg) ==
    bg.n_g * bg.n_p * (bg.s_p * bg.s_p * (bg.n_p * bg.n_p - 1)
                       + bg.s_g * bg.s_g * (bg.n_g * bg.n_g - 1))

\* Z_1 = 2 e / s_g / (1 + 1/3 (n_p + 1)/(n_p - 1) (1 / s_pg)^2)
Z_1(bg, e) ==
    (6 * e * (bg.n_p - 1) * bg.s_g * 1000)
        \div (3 * (bg.n_p - 1) * bg.s_g * bg.s_g
              + (bg.n_p + 1) * d_hp(bg) * d_hp(bg))

Z_b(bg, e) ==
    IF bg.n_p # 1
    THEN LET z1 == Z_1(bg, e)
             zs == (z1 * d_hp(bg)) \div bg.s_g
         IN  1000000 \div ISqrt((1000 + z1) * (1000 + z1) + zs * zs)
    ELSE (1000 * bg.s_g) \div (bg.s_g + 2 * e)

Z_eh(bg, e) ==
    IF bg.n_p # 1
    THEN (1000 * I_bp12(bg)) \div (12 * e * (bg.n_p - 1) * bg.s_p * bg.n_p)
    ELSE 0

Z_ev(bg, e) ==
    IF bg.n_p # 1
    THEN (1000 * I_bp12(bg)) \div (I_bp12(bg) + 12 * bg.n_p * e * bg.s_g)
    ELSE (1000 * bg.s_g) \div (bg.s_g + 2 * e)

\* Multiplication of a factor in thousandths with a float that may be NaN.
Times(z, v) == IF isnan(v) THEN NaN ELSE (z * v) \div 1000

\* v / 1000 on a float that may be NaN.
Milli(v) == IF isnan(v) THEN NaN ELSE v \div 1000

\* round(Z_b(e) * n_b * bolt.phiV_f, 2)
phiV_df_ecc(bg, e) == RoundDiv(Z_b(bg, e) * bg.n_b * bg.bolt.phiV_f, 1000)

phiV_bv_ecc(bg, phiV_bf, phiV_ev, phiV_eh, e) ==
    PyMin(<<phiV_df_ecc(bg, e), Times(Z_b(bg, e), phiV_bf),
            Times(Z_ev(bg, e), phiV_ev), Times(Z_eh(bg, e), phiV_eh)>>)

---------------------------------------------------------------------------
(* Featured member (connection/featured_member.py)                         *)

\* The supported beams: universal beams 248 x 124 x 8 x 5 and
\* 300 x 150 x 12 x 6 in GR300, with the design web shear capacity of the
\* member (hundredths of kN).
UB248 ==
    [sec_type |-> "UB", d |-> 248, t_f |-> 8, t_w |-> 5, d_w |-> 248,
     f_u |-> 440, f_yw |-> 320, phiV_v |-> 21400]

UB300 ==
    [sec_type |-> "UB", d |-> 300, t_f |-> 12, t_w |-> 6, d_w |-> 300,
     f_u |-> 440, f_yw |-> 320, phiV_v |-> 31100]

\* geom.d_1 of a UB: d - 2 t_f
d_1(um) == um.d - 2 * um.t_f

\* _cope_me: section family and depth of the coped member; the web and the
\* material are those of the unfeatured member.
cope_me(um, cope_type, d_ct, d_cb) ==
    [sec_type |-> IF cope_type = "SWC"
                  THEN (IF um.sec_type = "UB" THEN "BT" ELSE "BC")
                  ELSE IF cope_type = "DWC" /\ um.sec_type \in {"UB", "UC"}
                  THEN "RectPlate"
                  ELSE um.sec_type,
     d |-> IF cope_type = "SWC" THEN um.d - d_ct
           ELSE IF cope_type = "DWC" THEN um.d - d_ct - d_cb
           ELSE um.d,
     t_w |-> um.t_w, f_u |-> um.f_u, f_yw |-> um.f_yw]

\* FeaturedMember.__post_init__ : the member is the unfeatured member, or
\* the coped member; phiM_ss (hundredths of kNm) and phiV_ws (hundredths
\* of kN) are the capacities of that member, 3 significant figures.
FeaturedMember(um, features, d_ct, d_cb, L_c, phiM_ss, phiV_ws) ==
    [unfeatured_member |-> um,
     cope_type |-> features,
     d_ct |-> d_ct, d_cb |-> d_cb, L_c |-> L_c,
     member |-> cope_me(um, features, d_ct, d_cb),
     phiM_ss |-> RoundSig(phiM_ss, 3), phiV_ws |-> RoundSig(phiV_ws, 3)]

FeaturedMembers ==
    {FeaturedMember(UB248, "O", 0, 0, 0, 8800, 20000),
     FeaturedMember(UB248, "SWC", 35, 0, 120, 2600, 16000),
     FeaturedMember(UB248, "SWC", 65, 0, 120, 1950, 13600),
     FeaturedMember(UB248, "DWC", 35, 50, 120, 956, 11700),
     FeaturedMember(UB300, "O", 0, 0, 0, 17100, 28600),
     FeaturedMember(UB300, "SWC", 35, 0, 120, 4610, 23600),
     FeaturedMember(UB300, "SWC", 65, 0, 120, 3660, 20800),
     FeaturedMember(UB300, "DWC", 35, 50, 120, 1870, 18600)}

\* featured_member.d
fm_d(fm) == fm.member.d

\* phiV_wp(d_i) = unfeatured phiV_v * d_i / unfeatured d_w
phiV_wp(fm, d_i) ==
    (fm.unfeatured_member.phiV_v * d_i) \div fm.unfeatured_member.d_w

e_v(fm, gap) == fm.L_c + gap

\* phiV_cm(gap) = phiM_ss / e_v(gap) * 1000
phiV_cm(fm, gap) == (fm.phiM_ss * 1000) \div e_v(fm, gap)

\* round(0.75 * (0.5 A_nt f_u + 0.6 A_gv f_yw) / 1e3, 2), on the web t_w
fm_phiV_bs(fm, l_t, l_v) ==
    RoundDiv(75 * l_t * fm.member.t_w * fm.member.f_u
             + 90 * l_v * fm.member.t_w * fm.member.f_yw, 2000)

---------------------------------------------------------------------------
(* Connection construction (connection/FEP.py, connection/WSP.py)          *)

ConnTypes == {"FEP", "WSP"}

\* The fields a caller passes to FEPConnection(...) or WSPConnection(...);
\* a_eh_e1 and s_g1 are fields of the web side plate only, kept at their
\* defaults.  arg_OK remembers the detailing_OK argument.
NewConnection(t, fm, bg, plate, weld, a, a_ev_e, ok) ==
    [conn_type |-> t, featured_member |-> fm, bolt_group |-> bg,
     plate |-> plate, weld |-> weld, a |-> a, a_ev_e |-> a_ev_e,
     a_eh_e1 |-> 35, s_g1 |-> 55, detailing_OK |-> ok, sig_figs |-> 4,
     arg_OK |-> ok, pc |-> "post_init"]

Offsets == {47, 70, 100}

EdgeDistances == {28, 35, 47}

ConnInit ==
    /\ conn \in {NewConnection(t, fm, bg, plate, weld, a, a_ev_e, ok) :
                    t \in ConnTypes, fm \in FeaturedMembers,
                    bg \in BoltGroups, plate \in Plates, weld \in Welds,
                    a \in Offsets, a_ev_e \in EdgeDistances,
                    ok \in BOOLEAN}
    /\ featured = Idle
    /\ section = Idle
    /\ mem = Idle
    /\ material = Idle
    /\ geometry = Idle
    /\ component = Idle

IsCoped(c) == c.featured_member.cope_type \in {"SWC", "DWC"}

\* The assignments that open __post_init__.
Geometry ==
    /\ conn.pc = "post_init"
    /\ LET d_i == d_hp(conn.bolt_group) + 2 * conn.a_ev_e
           common ==
               [d_i |-> d_i,
                b_l_min |-> conn.featured_member.member.t_w + conn.plate.t_i,
                pc |-> "check_cope"]
           fep ==
               [a_eh_e |-> (conn.plate.b_i - d_hg(conn.bolt_group)) \div 2,
                gap |-> conn.plate.t_i]
           wsp ==
               [e |-> conn.s_g1 + conn.bolt_group.s_g \div 2,
                a_eh_e |-> conn.plate.b_i - conn.s_g1 - conn.bolt_group.s_g,
                gap |-> conn.s_g1 - conn.a_eh_e1]
           a_e4 == [a_e4 |-> conn.a - conn.featured_member.d_ct]
           a_e5 == [a_e5 |-> d_i - (conn.a - conn.featured_member.d_ct)
                             - d_hp(conn.bolt_group)]
       IN  conn' =
             IF conn.conn_type = "FEP" THEN common @@ fep @@ conn
             ELSE IF conn.featured_member.cope_type = "DWC"
             THEN common @@ wsp @@ a_e4 @@ a_e5 @@ conn
             ELSE IF conn.featured_member.cope_type = "SWC"
             THEN common @@ wsp @@ a_e4 @@ conn
             ELSE common @@ wsp @@ conn
    /\ UNCHANGED <<mem, material, geometry, component, featured, section>>

\* The conditions of the detailing checks; each one that holds sets
\* detailing_OK to False.
CopeMisaligned(c) ==
    IsCoped(c) /\ c.featured_member.d_ct # c.a - c.a_ev_e

VerticalEdgeShort(c) == c.a_ev_e < c.bolt_group.bolt.a_e_min

HorizontalEdgeShort(c) == c.a_eh_e < c.bolt_group.bolt.a_e_min

\* d_i < d_i_min with d_i_min = 0.5 * d of the unfeatured section
PlateTooShallow(c) == 2 * c.d_i < c.featured_member.unfeatured_member.d

\* weld.t_w < t_w_min with t_w_min = 0.75 * plate.t_i
WeldLegSmall(c) == 4 * c.weld.t_w < 3 * c.plate.t_i

\* Faulty variant: the flange thickness is left out of the comparison.
IntoTopFlangeWithoutThickness(c) == (c.a - c.a_ev_e) < 0

IntoTopFlange(c) ==
    (c.a - c.a_ev_e) < c.featured_member.unfeatured_member.t_f

IntoBottomFlange(c) ==
    (c.a - c.a_ev_e + c.d_i) >
        (c.featured_member.unfeatured_member.d
         - c.featured_member.unfeatured_member.t_f)

\* d_i_max = min(d_i_max_1, d_i_max_3)
d_i_max(c) ==
    Min2(c.featured_member.unfeatured_member.d - c.a + c.a_ev_e,
         fm_d(c.featured_member))

PlateTooDeep(c) == c.d_i > d_i_max(c)

\* Faulty variant: the flag is assigned the outcome of the check, so a later
\* check that passes sets it again.
CheckAssigningOutcome(at, cond, extra, next) ==
    /\ conn.pc = at
    /\ conn' = [pc |-> next, detailing_OK |-> ~cond] @@ extra @@ conn
    /\ UNCHANGED <<mem, material, geometry, component, featured, section>>

\* One detailing check: the flag is cleared if the condition holds and is
\* left as it is otherwise; extra holds the attributes the check stores.
Check(at, cond, extra, next) ==
    /\ conn.pc = at
    /\ conn' = [pc |-> next,
                detailing_OK |-> IF cond THEN FALSE ELSE conn.detailing_OK]
               @@ extra @@ conn
    /\ UNCHANGED <<mem, material, geometry, component, featured, section>>

NoAttr == [k \in {} |-> 0]

CheckCope == Check("check_cope", CopeMisaligned(conn), NoAttr, "check_a_ev")

CheckVerticalEdge ==
    Check("check_a_ev", VerticalEdgeShort(conn), NoAttr, "check_a_eh")

CheckHorizontalEdge ==
    Check("check_a_eh", HorizontalEdgeShort(conn), NoAttr, "check_d_i_min")

CheckMinDepth ==
    Check("check_d_i_min", PlateTooShallow(conn),
          [d_i_min |-> conn.featured_member.unfeatured_member.d \div 2],
          IF conn.conn_type = "WSP" THEN "check_t_w" ELSE "check_top")

\* Web side plate only.
CheckWeldLeg ==
    Check("check_t_w", WeldLegSmall(conn),
          [t_w_min |-> (3 * conn.plate.t_i) \div 4], "check_top")

CheckTopFlange == Check("check_top", IntoTopFlange(conn), NoAttr, "check_bottom")

CheckBottomFlange ==
    Check("check_bottom", IntoBottomFlange(conn), NoAttr, "check_d_i_max")

CheckMaxDepth ==
    Check("check_d_i_max", PlateTooDeep(conn), [d_i_max |-> d_i_max(conn)],
          "capacities")

\* 2 * v for a float that may be NaN.
Twice(v) == IF isnan(v) THEN NaN ELSE 2 * v

\* FEP failure modes V_a .. V_g.
FEPCapacities(c) ==
    LET bg == c.bolt_group
        bb == phiV_bb(bg.n_b, bg.bolt.d_f, c.plate.t_i, c.plate.f_ui)
        bt == phiV_bt(bg.n_b, a_ey(bg, c.a_ev_e), c.plate.t_i, c.plate.f_ui)
    IN  [V_a |-> Weld_V_a(c.weld, c.d_i),
         V_b |-> PyMin(<<bg.phiV_df, bb, bt>>),
         V_c |-> Twice(Plate_phiV_v(c.plate, c.d_i)),
         V_d |-> Twice(Plate_phiV_bs(c.plate, l_ty(bg, c.a_eh_e),
                                     l_vy(bg, c.a_ev_e))),
         V_e |-> phiV_wp(c.featured_member, c.d_i),
         V_f |-> c.featured_member.phiV_ws,
         V_g |-> phiV_cm(c.featured_member, c.gap)]

\* WSPConnection._V_g
WSP_V_g(c) ==
    IF c.featured_member.cope_type \in {"SWC", "DWC"}
    THEN fm_phiV_bs(c.featured_member, l_ty(c.bolt_group, c.a_eh_e1),
                    l_vy(c.bolt_group, c.a_e4))
    ELSE NaN

\* WSP failure modes V_a .. V_h.
WSPCapacities(c) ==
    LET bg == c.bolt_group
        fm == c.featured_member
        pbt(a_e) == phiV_bt(bg.n_b, a_e, c.plate.t_i, c.plate.f_ui)
        mbt(a_e) == phiV_bt(bg.n_b, a_e, fm.member.t_w, fm.member.f_u)
        phiV_bf ==
            PyMin(<<phiV_bb(bg.n_b, bg.bolt.d_f, c.plate.t_i, c.plate.f_ui),
                    phiV_bb(bg.n_b, bg.bolt.d_f, fm.member.t_w,
                            fm.member.f_u)>>)
        a_ey_b == IF fm.cope_type = "SWC" THEN a_ey(bg, c.a_e4)
                  ELSE a_ey(bg, Min2(c.a_e4, c.a_e5))
        phiV_ev == IF fm.cope_type = "O" THEN pbt(a_ey(bg, c.a_ev_e))
                   ELSE PyMin(<<pbt(a_ey(bg, c.a_ev_e)), mbt(a_ey_b)>>)
        phiV_eh == PyMin(<<pbt(a_ex(bg, c.a_eh_e)), mbt(a_ex(bg, c.a_eh_e1))>>)
    IN  [V_a |-> Weld_V_a_ecc(c.weld, c.d_i, c.e),
         V_b |-> phiV_bv_ecc(bg, Milli(phiV_bf), Milli(phiV_ev),
                             Milli(phiV_eh), c.e),
         V_c |-> Plate_phiV_v(c.plate, c.d_i),
         V_d |-> Plate_phiM_si_ecc(c.plate, c.d_i, c.e),
         V_e |-> Plate_phiV_bs(c.plate, l_ty(bg, c.a_eh_e), l_vy(bg, c.a_ev_e)),
         V_f |-> fm.phiV_ws,
         V_g |-> WSP_V_g(c),
         V_h |-> phiV_cm(fm, c.gap)]

\* Faulty variant: the coped-member bending mode is always included.
V_des_ASI_WithAllModes(c) ==
    PyMin(<<c.V_a, c.V_b, c.V_c, c.V_d, c.V_e, c.V_f, c.V_g>>)

\* _V_des_ASI
V_des_ASI(c) ==
    IF c.conn_type = "FEP" \/ c.featured_member.cope_type = "O"
    THEN PyMin(<<c.V_a, c.V_b, c.V_c, c.V_d, c.V_e, c.V_f>>)
    ELSE PyMin(<<c.V_a, c.V_b, c.V_c, c.V_d, c.V_e, c.V_f, c.V_g>>)

\* _V_des_all
V_des_all(c) ==
    IF c.conn_type = "FEP"
    THEN PyMin(<<c.V_a, c.V_b, c.V_c, c.V_d, c.V_e, c.V_f, c.V_g>>)
    ELSE PyMin(<<c.V_a, c.V_b, c.V_c, c.V_d, c.V_e, c.V_f, c.V_g, c.V_h>>)

\* The failure modes, then the two design capacities.
Capacities ==
    /\ conn.pc = "capacities"
    /\ LET c1 == (IF conn.conn_type = "FEP" THEN FEPCapacities(conn)
                  ELSE WSPCapacities(conn)) @@ conn
           c2 == [V_des_ASI |-> V_des_ASI(c1)] @@ c1
       IN  conn' = [pc |-> "round", V_des_all |-> V_des_all(c2)] @@ c2
    /\ UNCHANGED <<mem, material, geometry, component, featured, section>>

\* The attributes of a connection that hold numbers.
ConnNumbers ==
    {"a", "a_ev_e", "a_eh_e1", "s_g1", "sig_figs", "d_i", "a_eh_e", "gap",
     "e", "a_e4", "a_e5", "b_l_min", "d_i_min", "t_w_min", "d_i_max",
     "V_a", "V_b", "V_c", "V_d", "V_e", "V_f", "V_g", "V_h",
     "V_des_ASI", "V_des_all"}

\* Capacities are held in hundredths, so that they keep two more digits
\* than the lengths.
ConnRound(k, v, sig_figs) ==
    IF k \in ConnNumbers THEN RoundSig(v, sig_figs) ELSE v

\* The closing loop: every numeric attribute that is not NaN and not zero
\* is rounded to sig_figs significant figures.  detailing_OK is a bool, an
\* int for isinstance: True becomes 1, which is still true.
RoundSigFigs ==
    /\ conn.pc = "round"
    /\ conn' = [k \in DOMAIN conn |->
                   IF k = "pc" THEN "done"
                   ELSE ConnRound(k, conn[k], conn.sig_figs)]
    /\ UNCHANGED <<mem, material, geometry, component, featured, section>>

ConnNext ==
    \/ Geometry
    \/ CheckCope
    \/ CheckVerticalEdge
    \/ CheckHorizontalEdge
    \/ CheckMinDepth
    \/ CheckWeldLeg
    \/ CheckTopFlange
    \/ CheckBottomFlange
    \/ CheckMaxDepth
    \/ Capacities
    \/ RoundSigFigs

SpecConn == ConnInit /\ [][ConnNext]_vars

---------------------------------------------------------------------------
(* Properties of the connection construction                               *)

\* The failure modes in the order _V_des_all lists them.
FailureModes(c) ==
    IF c.conn_type = "FEP"
    THEN <<c.V_a, c.V_b, c.V_c, c.V_d, c.V_e, c.V_f, c.V_g>>
    ELSE <<c.V_a, c.V_b, c.V_c, c.V_d, c.V_e, c.V_f, c.V_g, c.V_h>>

RealOf(s) == {s[i] : i \in {j \in 1..Len(s) : ~isnan(s[j])}}

IsLeast(v, S) == v \in S /\ \A w \in S : v <= w

Computed == conn.pc \in {"round", "done"}

\* C1: for every constructed FEP or WSP connection the governing design
\* capacity V_des_all is the minimum of the failure-mode capacities that
\* are not NaN: NaN is never returned as the governing value and never
\* hides a smaller real capacity listed after it.
C1_GoverningIsLeastRealMode ==
    Computed =>
        /\ ~isnan(conn.V_des_all)
        /\ IsLeast(conn.V_des_all, RealOf(FailureModes(conn)))

\* A constructed connection with a NaN failure mode listed before the
\* mode that governs.
C1_NaNBeforeGoverningMode ==
    /\ conn.pc = "done"
    /\ \E i, j \in 1..Len(FailureModes(conn)) :
          /\ i < j
          /\ isnan(FailureModes(conn)[i])
          /\ FailureModes(conn)[j] = conn.V_des_all
          /\ \A k \in 1..(j - 1) :
                ~isnan(FailureModes(conn)[k])
                    => FailureModes(conn)[k] > conn.V_des_all

\* C2: for an uncoped member (cope_type 'O') the coped-member modes, FEP
\* V_g, WSP V_g and WSP V_h, are each NaN after construction, and the
\* governing capacity is computed without them.
C2_UncopedModesAreNaN ==
    (conn.pc = "done" /\ conn.featured_member.cope_type = "O") =>
        /\ isnan(conn.V_g)
        /\ conn.conn_type = "WSP" => isnan(conn.V_h)
        /\ IsLeast(conn.V_des_all, RealOf(FailureModes(conn)))

\* The detailing conditions of a connection, whatever the order they are
\* evaluated in.
SomeCheckFails(c) ==
    \/ CopeMisaligned(c)
    \/ VerticalEdgeShort(c)
    \/ HorizontalEdgeShort(c)
    \/ PlateTooShallow(c)
    \/ (c.conn_type = "WSP" /\ WeldLegSmall(c))
    \/ IntoTopFlange(c)
    \/ IntoBottomFlange(c)
    \/ PlateTooDeep(c)

\* C3: during construction detailing_OK only ever changes from true to
\* false, and its final value is the conjunction of its initial value and
\* of "no detailing condition holds", a result that does not depend on the
\* order of the checks.
C3_DetailingOnlyCleared ==
    /\ [][conn'.detailing_OK => conn.detailing_OK]_vars
    /\ [](conn.pc = "done" =>
            (conn.detailing_OK <=> (conn.arg_OK /\ ~SomeCheckFails(conn))))

\* A connection whose first check failed and whose last check passed.
C3_EarlyFailureKept ==
    /\ conn.pc = "done"
    /\ conn.arg_OK
    /\ CopeMisaligned(conn)
    /\ ~IntoBottomFlange(conn)
    /\ ~PlateTooDeep(conn)
    /\ ~conn.detailing_OK

\* C4: for the flexible end plate V_des_ASI = min(V_a .. V_f) and V_des_all
\* is the minimum of all seven modes, so V_des_all <= V_des_ASI, with strict
\* inequality only when V_g is smaller than every other mode.
C4_ASIExcludesCopeBending ==
    (Computed /\ conn.conn_type = "FEP") =>
        LET six == RealOf(<<conn.V_a, conn.V_b, conn.V_c, conn.V_d,
                            conn.V_e, conn.V_f>>)
        IN  /\ IsLeast(conn.V_des_ASI, six)
            /\ IsLeast(conn.V_des_all, six \cup RealOf(<<conn.V_g>>))
            /\ conn.V_des_all <= conn.V_des_ASI
            /\ (conn.V_des_all < conn.V_des_ASI)
                   <=> (\A v \in six : conn.V_g < v)

\* A flexible end plate governed by the coped-member bending mode.
C4_CopeBendingGoverns ==
    /\ conn.pc = "done"
    /\ conn.conn_type = "FEP"
    /\ conn.V_des_all = conn.V_g
    /\ conn.V_des_all < conn.V_des_ASI

\* C5: for an FEP or WSP connection on a UB or UC member, detailing_OK true
\* after construction implies that the plate depth
\* d_i = (n_p - 1) * s_p + 2 * a_ev_e fits between the flanges of the
\* unfeatured section, d_i <= d - 2 t_f, and within the depth of the
\* featured section.
C5_PlateFitsBetweenFlanges ==
    (/\ conn.pc = "done"
     /\ conn.detailing_OK
     /\ conn.featured_member.unfeatured_member.sec_type \in {"UB", "UC"}) =>
        /\ conn.d_i = (conn.bolt_group.n_p - 1) * conn.bolt_group.s_p
                      + 2 * conn.a_ev_e
        /\ conn.d_i <= d_1(conn.featured_member.unfeatured_member)
        /\ conn.d_i <= fm_d(conn.featured_member)

\* A coped connection that passes detailing with the plate against the
\* bottom of the coped section.
C5_DetailedCopedConnection ==
    /\ conn.pc = "done"
    /\ conn.detailing_OK
    /\ IsCoped(conn)
    /\ 2 * conn.d_i > d_1(conn.featured_member.unfeatured_member)

---------------------------------------------------------------------------
(* Sections and members (member/geometry.py, material.py, slenderness.py,  *)
(* member.py)                                                              *)
(*                                                                         *)
(* Slenderness values, the form factor and the shear buckling factor are   *)
(* exact rationals [n, d] with d > 0, so that a value that equals a limit  *)
(* is told apart from one just above it.  The yield stresses of the        *)
(* materials are 250 and 360 MPa, for which (f_y / 250) ** 0.5 is the      *)
(* exact float 1 or 1.2.  Moduli are whole mm^3, areas whole mm^2, radii   *)
(* of gyration hundredths of a mm, the warping constant 10^6 mm^6.         *)
(* Member capacities are held in N and N mm: the kN and kN m of the code   *)
(* times 10^3 and 10^6, which the rounding to significant figures does     *)
(* not see.  Square roots and pi ** 2 are evaluated in fixed point: the    *)
(* capacities agree with the floats of the code to within one unit of      *)
(* the third significant figure.                                           *)

Abs(x) == IF x < 0 THEN -x ELSE x

RECURSIVE GCD(_, _)
GCD(a, b) == IF b = 0 THEN a ELSE GCD(b, a % b)

\* The float n / d, in lowest terms; NaN when either part is NaN.
Rat(n, d) ==
    IF isnan(n) \/ isnan(d) THEN [n |-> NaN, d |-> 1]
    ELSE LET g == GCD(Abs(n), d) IN [n |-> n \div g, d |-> d \div g]

Whole(k) == Rat(k, 1)

RNaN(x) == isnan(x.n)

\* x < y, x <= y on floats: false when either side is NaN.
RLt(x, y) == ~RNaN(x) /\ ~RNaN(y) /\ x.n * y.d < y.n * x.d

RLe(x, y) == ~RNaN(x) /\ ~RNaN(y) /\ x.n * y.d <= y.n * x.d

RMul(x, y) == IF RNaN(x) \/ RNaN(y) THEN Rat(NaN, 1)
              ELSE Rat(x.n * y.n, x.d * y.d)

RSub(x, y) == IF RNaN(x) \/ RNaN(y) THEN Rat(NaN, 1)
              ELSE Rat(x.n * y.d - y.n * x.d, x.d * y.d)

\* x / y for y > 0.
RDiv(x, y) == IF RNaN(x) \/ RNaN(y) THEN Rat(NaN, 1)
              ELSE Rat(x.n * y.d, x.d * y.n)

\* floor(log10(a / d)) for a, d > 0.
RECURSIVE LeadingZeros(_, _, _)
LeadingZeros(a, d, k) ==
    IF a * Pow10(k) >= d THEN k ELSE LeadingZeros(a, d, k + 1)

Exp10(a, d) == IF a >= d THEN Digits(a \div d) - 1 ELSE -LeadingZeros(a, d, 1)

\* round(v, sig_figs - int(floor(log10(abs(v)))) - 1) on a rational; NaN
\* and zero are skipped by the rounding loops.
RoundSigRat(x, sig_figs) ==
    IF RNaN(x) \/ x.n = 0 THEN x
    ELSE LET a == Abs(x.n)
             sgn == IF x.n < 0 THEN -1 ELSE 1
             k == sig_figs - Exp10(a, x.d) - 1
         IN  IF k >= 0
             THEN Rat(sgn * RoundDiv(a * Pow10(k), x.d), Pow10(k))
             ELSE Rat(sgn * RoundDiv(a, x.d * Pow10(-k)) * Pow10(-k), 1)

\* The stored value in thousandths, truncated.
Thousandths(x) == (x.n * 1000) \div x.d

\* SectionGeometry after solve_shape, for welded or rolled I-sections
\* without root radius: the section properties are the numbers the code
\* stores (4 significant figures).
SectionGeometry(sec_type, s) ==
    [sec_type |-> sec_type, d |-> s[1], b |-> s[2], t_f |-> s[3],
     t_w |-> s[4], A_g |-> s[5], S_x |-> s[6], Z_x |-> s[7], S_y |-> s[8],
     Z_y |-> s[9], I_y |-> s[10], J |-> s[11], I_w |-> s[12],
     r_x |-> s[13], r_y |-> s[14]]

\* d, b, t_f, t_w and the computed A_g, S_x, Z_x, S_y, Z_y, I_y, J, I_w,
\* r_x, r_y.
Shapes ==
    { <<248, 124, 8, 5, 3144, 305400, 272400, 62950, 41040, 2545000,
        51070, 36640, 10370, 2845>>,
      <<300, 186, 10, 6, 5400, 657000, 594800, 175500, 115400, 10730000,
        141800, 225600, 12850, 4458>>,
      <<300, 326, 10, 6, 8200, 1063000, 987400, 533900, 354300, 57750000,
        235100, 1214000, 13440, 8392>>,
      <<300, 328, 10, 6, 8240, 1069000, 993000, 540400, 358600, 58820000,
        236400, 1237000, 13450, 8449>>,
      <<500, 100, 10, 5, 4400, 778000, 664600, 53000, 33430, 1672000,
        83740, 100300, 19430, 1949>>,
      <<430, 150, 10, 5, 5050, 840100, 749000, 115100, 75060, 5629000,
        114200, 248300, 17860, 3339>>,
      <<221, 200, 20, 4, 8724, 836800, 751500, 400700, 266700, 26670000,
        1003000, 269300, 9757, 5529>>,
      <<200, 238, 5, 4, 3140, 268200, 249200, 142400, 94420, 11240000,
        23820, 106800, 8908, 5982>>,
      <<420, 205, 10, 5, 6100, 1040000, 947600, 212600, 140100, 14360000,
        150400, 603600, 18060, 4852>> }

SecTypes == {"UB", "WB"}

Geometries ==
    {SectionGeometry(st, s) : st \in SecTypes, s \in Shapes}

\* geometry.py d_1: clear depth between flanges.
geom_d_1(geom) == geom.d - 2 * geom.t_f

\* geometry.py b_ff, doubled: the flange outstand is (b - t_w) / 2.
b_ff2(geom) == geom.b - geom.t_w

\* geometry.py d_p: the web panel depth of an I-section is d_1.
d_p(geom) == geom_d_1(geom)

\* geometry.py d_w: the full depth for rolled, the clear depth for welded
\* I-sections.
d_w(geom) == IF geom.sec_type \in {"UB", "UC"} THEN geom.d ELSE geom_d_1(geom)

A_w(geom) == d_w(geom) * geom.t_w

\* SteelMaterial as from_dict leaves it: the given strengths and residual
\* stress class; f_yw is NaN when only f_y is given.
SteelMaterial(f_y, f_yw, f_u, res_stress) ==
    [f_y |-> f_y, f_yw |-> f_yw, f_u |-> f_u, res_stress |-> res_stress]

Materials ==
    { SteelMaterial(250, 250, 410, "HR"), SteelMaterial(360, 360, 480, "HR"),
      SteelMaterial(250, 250, 410, "HW"), SteelMaterial(360, NaN, 440, "HR") }

\* (f / 250) ** 0.5
SqrtOver250(f) ==
    IF f = 250 THEN Rat(1, 1) ELSE IF f = 360 THEN Rat(6, 5) ELSE Rat(NaN, 1)

\* AS 4100 Table 5.2 and 6.2.4: plasticity limit lam_ep and yield limit
\* lam_ey of a flat plate element.
plate_element_slenderness_limit(edge_support, load_type, res_stress) ==
    IF edge_support = "One"
    THEN IF load_type = "UniformComp"
         THEN CASE res_stress = "SR" -> [lam_ep |-> 10, lam_ey |-> 16]
                [] res_stress = "HR" -> [lam_ep |-> 9, lam_ey |-> 16]
                [] res_stress \in {"LW", "CF"} -> [lam_ep |-> 8, lam_ey |-> 15]
                [] res_stress = "HW" -> [lam_ep |-> 8, lam_ey |-> 14]
         ELSE CASE res_stress = "SR" -> [lam_ep |-> 10, lam_ey |-> 25]
                [] res_stress = "HR" -> [lam_ep |-> 9, lam_ey |-> 25]
                [] res_stress \in {"LW", "CF", "HW"} ->
                       [lam_ep |-> 8, lam_ey |-> 22]
    ELSE IF load_type = "UniformComp"
         THEN CASE res_stress \in {"SR", "HR"} -> [lam_ep |-> 30, lam_ey |-> 45]
                [] res_stress \in {"LW", "CF"} -> [lam_ep |-> 30, lam_ey |-> 40]
                [] res_stress = "HW" -> [lam_ep |-> 30, lam_ey |-> 35]
         ELSE [lam_ep |-> 82, lam_ey |-> 115]

\* Faulty variant: lam_ey / lam_e * b, not capped at the full width.
EffectiveWidthUncapped(b2, lam_e, lam_ey) ==
    RMul(RDiv(Whole(lam_ey), lam_e), Rat(b2, 2))

\* AS 4100 Cl 6.2.4: b_e = min(1, lam_ey / lam_e) * b; b2 is twice b.
EffectiveWidth(b2, lam_e, lam_ey) ==
    IF RLt(RDiv(Whole(lam_ey), lam_e), Whole(1))
    THEN RMul(RDiv(Whole(lam_ey), lam_e), Rat(b2, 2))
    ELSE Rat(b2, 2)

\* PlateComponent.__post_init__; b2 is twice the clear width b.
PlateComponent(b2, t, f_y, edge_sup, load_type, res_stress) ==
    LET lim == plate_element_slenderness_limit(edge_sup, load_type, res_stress)
        lam_e == RMul(Rat(b2, 2 * t), SqrtOver250(f_y))
        b_e == EffectiveWidth(b2, lam_e, lim.lam_ey)
    IN  [b2 |-> b2, t |-> t, edge_sup |-> edge_sup, load_type |-> load_type,
         lam_ep |-> lim.lam_ep, lam_ey |-> lim.lam_ey,
         lam_e |-> lam_e,
         lam_e_ratio |-> RDiv(lam_e, Whole(lim.lam_ey)),
         b_e |-> b_e,
         A_e |-> RMul(b_e, Whole(t)),
         A_v |-> RMul(RSub(Rat(b2, 2), b_e), Whole(t))]

\* i_section_components: the element lists for bending about x, bending
\* about y and compression.
i_section_components(geom, mat) ==
    LET c_flange_x == PlateComponent(b_ff2(geom), geom.t_f, mat.f_y, "One",
                                     "UniformComp", mat.res_stress)
        c_web_x == PlateComponent(2 * geom_d_1(geom), geom.t_w, mat.f_y,
                                  "Both", "CompToTens", mat.res_stress)
        c_flange_y == PlateComponent(b_ff2(geom), geom.t_f, mat.f_y, "One",
                                     "CompToTens", mat.res_stress)
        c_flange_c == PlateComponent(b_ff2(geom), geom.t_f, mat.f_y, "One",
                                     "UniformComp", mat.res_stress)
        c_web_c == PlateComponent(2 * geom_d_1(geom), geom.t_w, mat.f_y,
                                  "Both", "UniformComp", mat.res_stress)
    IN  [components_x |-> <<c_flange_x, c_web_x>>,
         components_y |-> <<c_flange_y>>,
         components_c |-> <<c_web_c, c_flange_c, c_flange_c, c_flange_c,
                            c_flange_c>>]

\* The dataclass defaults of the section slenderness.
NoGoverning ==
    [max_lam_e_ratio |-> Whole(0), lam_s |-> Whole(0), lam_sp |-> 0,
     lam_sy |-> 0, slender_section_type |-> 1]

\* The loops of solve_slenderness: the element with the greatest
\* lam_e / lam_ey gives lam_s, lam_sp and lam_sy; a later element replaces
\* an earlier one only when strictly greater.
RECURSIVE GoverningFrom(_, _, _)
GoverningFrom(cur, components, i) ==
    IF i > Len(components) THEN cur
    ELSE LET p == components[i]
         IN  GoverningFrom(
                 IF RLt(cur.max_lam_e_ratio, p.lam_e_ratio)
                 THEN [max_lam_e_ratio |-> p.lam_e_ratio,
                       lam_s |-> p.lam_e, lam_sp |-> p.lam_ep,
                       lam_sy |-> p.lam_ey,
                       slender_section_type |->
                           IF p.edge_sup = "One" /\ p.load_type = "CompToTens"
                           THEN 2 ELSE 1]
                 ELSE cur,
                 components, i + 1)

\* Faulty variant: the first element of the list governs, whatever the
\* ratios of the others.
GoverningFirst(components) ==
    GoverningFrom(NoGoverning, SubSeq(components, 1, 1), 1)

Governing(components) == GoverningFrom(NoGoverning, components, 1)

\* Faulty variant: both limits exclusive.
ClassifyExclusive(lam_s, lam_sp, lam_sy) ==
    IF RLt(lam_s, Whole(lam_sp)) THEN "C"
    ELSE IF RLt(lam_s, Whole(lam_sy)) THEN "N"
    ELSE "S"

\* The branches of _Z_ex and _Z_ey.
Classify(lam_s, lam_sp, lam_sy) ==
    IF RLe(lam_s, Whole(lam_sp)) THEN "C"
    ELSE IF RLe(lam_s, Whole(lam_sy)) THEN "N"
    ELSE "S"

\* AS 4100 Cl 5.2.3: min(S, 1.5 Z)
Z_compact(S, Z) == Min2(S, (3 * Z) \div 2)

\* AS 4100 Cl 5.2.4: Z + (lam_sy - lam_s) / (lam_sy - lam_sp) * (Z_c - Z)
Z_noncompact(S, Z, g) ==
    Z + RoundDiv((g.lam_sy * g.lam_s.d - g.lam_s.n) * (Z_compact(S, Z) - Z),
                 (g.lam_sy - g.lam_sp) * g.lam_s.d)

\* AS 4100 Cl 5.2.5: Z * lam_sy / lam_s, squared ratio for an outstand in
\* bending about x.
Z_exslender(Z, g) ==
    IF g.slender_section_type = 1
    THEN RoundDiv(Z * g.lam_sy * g.lam_s.d, g.lam_s.n)
    ELSE RoundDiv(RoundDiv(Z * g.lam_sy * g.lam_s.d, g.lam_s.n) * g.lam_sy
                      * g.lam_s.d, g.lam_s.n)

Z_eyslender(Z, g) == RoundDiv(Z * g.lam_sy * g.lam_s.d, g.lam_s.n)

Z_ex(geom, g) ==
    CASE Classify(g.lam_s, g.lam_sp, g.lam_sy) = "C" ->
             Z_compact(geom.S_x, geom.Z_x)
      [] Classify(g.lam_s, g.lam_sp, g.lam_sy) = "N" ->
             Z_noncompact(geom.S_x, geom.Z_x, g)
      [] OTHER -> Z_exslender(geom.Z_x, g)

Z_ey(geom, g) ==
    CASE Classify(g.lam_s, g.lam_sp, g.lam_sy) = "C" ->
             Z_compact(geom.S_y, geom.Z_y)
      [] Classify(g.lam_s, g.lam_sp, g.lam_sy) = "N" ->
             Z_noncompact(geom.S_y, geom.Z_y, g)
      [] OTHER -> Z_eyslender(geom.Z_y, g)

\* _A_e: the gross area less the lost area A_v of every compression
\* element.
RECURSIVE A_e_from(_, _, _)
A_e_from(A, components_c, i) ==
    IF i > Len(components_c) THEN A
    ELSE A_e_from(RSub(A, components_c[i].A_v), components_c, i + 1)

A_e(geom, components_c) == A_e_from(Whole(geom.A_g), components_c, 1)

k_f(geom, components_c) == RDiv(A_e(geom, components_c), Whole(geom.A_g))

\* AS 4100 Table 6.3.3: member section constant of an I-section, as a
\* rational.
member_section_constant(geom, kf) ==
    IF RLt(kf, Whole(1))
    THEN IF geom.sec_type \in {"UB", "UC"}
         THEN (IF geom.t_f <= 40 THEN Whole(0) ELSE Rat(1, 2))
         ELSE (IF geom.t_f <= 40 THEN Rat(1, 2) ELSE Whole(1))
    ELSE IF geom.sec_type \in {"UB", "UC"}
         THEN (IF geom.t_f <= 40 THEN Whole(0) ELSE Whole(1))
         ELSE Whole(0)

\* AS 4100 Cl 5.11.2: r2 / r1 with r1 = d_p / t_w and
\* r2 = 82 / (f_yw / 250) ** 0.5.
web_shear_slenderness_ratio(geom, mat) ==
    RDiv(RDiv(Whole(82), SqrtOver250(mat.f_yw)), Rat(d_p(geom), geom.t_w))

\* Faulty variant: yield governs when the ratio is at most 1.
YieldGovernsAtMostOne(geom, mat) ==
    RLe(web_shear_slenderness_ratio(geom, mat), Whole(1))

web_shear_yield_governs(geom, mat) ==
    IF RLe(web_shear_slenderness_ratio(geom, mat), Whole(1))
    THEN FALSE ELSE TRUE

\* AS 4100 Cl 5.11.5.1: min(ratio ** 2, 1); builtin min keeps a first
\* argument that is NaN.
alpha_v(geom, mat) ==
    LET r == web_shear_slenderness_ratio(geom, mat)
    IN  IF RLt(Whole(1), RMul(r, r)) THEN Whole(1) ELSE RMul(r, r)

\* SteelSlenderness as the dataclass constructs it, before __post_init__.
NewSlenderness ==
    [components_x |-> <<>>, components_y |-> <<>>, components_c |-> <<>>,
     compact_x |-> "", compact_y |-> "",
     lam_s_x |-> Whole(0), lam_sp_x |-> 0, lam_sy_x |-> 0,
     lam_s_y |-> Whole(0), lam_sp_y |-> 0, lam_sy_y |-> 0,
     Z_ex |-> 0, Z_ey |-> 0, k_f |-> Whole(0), A_e |-> Whole(0),
     alpha_b |-> Whole(0), web_shear_yield_governs |-> TRUE,
     alpha_v |-> Whole(0), slender_section_type_x |-> 1, sig_figs |-> 3]

\* SteelSection(geom, mat): the slenderness is built from the geometry and
\* the material.
MemInit ==
    /\ featured = Idle
    /\ section = Idle
    /\ conn = Idle
    /\ material = Idle
    /\ geometry = Idle
    /\ component = Idle
    /\ mem \in {[pc |-> "slenderness", geom |-> g, mat |-> m,
                 slenderness |-> NewSlenderness]
                    : g \in Geometries, m \in Materials}

\* SteelSlenderness.__post_init__: the element lists by section type.
Components ==
    /\ mem.pc = "slenderness"
    /\ mem' = [mem EXCEPT
                 !.pc = "components",
                 !.slenderness = i_section_components(mem.geom, mem.mat)
                                     @@ mem.slenderness]
    /\ UNCHANGED <<conn, material, geometry, component, featured, section>>

\* solve_slenderness
Solved(geom, mat, sl) ==
    LET gx == Governing(sl.components_x)
        gy == Governing(sl.components_y)
    IN  [sl EXCEPT
           !.lam_s_x = gx.lam_s, !.lam_sp_x = gx.lam_sp,
           !.lam_sy_x = gx.lam_sy,
           !.slender_section_type_x = gx.slender_section_type,
           !.lam_s_y = gy.lam_s, !.lam_sp_y = gy.lam_sp,
           !.lam_sy_y = gy.lam_sy,
           !.compact_x = Classify(gx.lam_s, gx.lam_sp, gx.lam_sy),
           !.Z_ex = Z_ex(geom, gx),
           !.compact_y = Classify(gy.lam_s, gy.lam_sp, gy.lam_sy),
           !.Z_ey = Z_ey(geom, gy),
           !.A_e = A_e(geom, sl.components_c),
           !.k_f = k_f(geom, sl.components_c),
           !.alpha_b = member_section_constant(geom,
                                               k_f(geom, sl.components_c)),
           !.web_shear_yield_governs = web_shear_yield_governs(geom, mat),
           !.alpha_v = alpha_v(geom, mat)]

SolveSlenderness ==
    /\ mem.pc = "components"
    /\ mem' = [mem EXCEPT
                 !.pc = "solved",
                 !.slenderness = Solved(mem.geom, mem.mat, mem.slenderness)]
    /\ UNCHANGED <<conn, material, geometry, component, featured, section>>

SlendernessRationals == {"lam_s_x", "lam_s_y", "k_f", "A_e", "alpha_b",
                         "alpha_v"}

SlendernessNumbers == {"lam_sp_x", "lam_sy_x", "lam_sp_y", "lam_sy_y",
                       "Z_ex", "Z_ey", "slender_section_type_x", "sig_figs"}

\* The closing loop of SteelSlenderness.__post_init__: every numeric
\* attribute that is not NaN and not zero is rounded to sig_figs
\* significant figures.  web_shear_yield_governs is a bool, an int for
\* isinstance: True becomes 1, which is still true.
RoundedSlenderness(sl) ==
    [k \in DOMAIN sl |->
        IF k \in SlendernessRationals THEN RoundSigRat(sl[k], sl.sig_figs)
        ELSE IF k \in SlendernessNumbers THEN RoundSig(sl[k], sl.sig_figs)
        ELSE sl[k]]

RoundSlenderness ==
    /\ mem.pc = "solved"
    /\ mem' = [mem EXCEPT
                 !.pc = "section",
                 !.slenderness = RoundedSlenderness(mem.slenderness)]
    /\ UNCHANGED <<conn, material, geometry, component, featured, section>>

\* floor(a * b / c) for a, b >= 0 and c > 0, without forming a * b.
MulDiv(a, b, c) == (a \div c) * b + ((a % c) * b) \div c

\* phi * v on a capacity; NaN stays NaN.
Factored(phi, v) == IF isnan(v) THEN NaN ELSE MulDiv(v, phi.n, phi.d)

MaxSpans == 2

\* Effective lengths in mm: zero (the default) or a whole number of
\* 1.5 m spans.
Lengths == {1500 * k : k \in 0..MaxSpans}

\* Moment modification factors alpha_m, in hundredths.
MomentFactors == {100, 175}

\* SteelMember as the dataclass constructs it, before __post_init__.
NewSteelMember(l_ex, l_ey, l_eb, end_i_restraint, end_j_restraint, alpha_m) ==
    [l_ex |-> l_ex, l_ey |-> l_ey, l_eb |-> l_eb,
     end_i_restraint |-> end_i_restraint,
     end_j_restraint |-> end_j_restraint,
     phi |-> Rat(9, 10),
     M_sx |-> 0, M_bx |-> 0, M_sy |-> 0, V_v |-> 0, alpha_m |-> alpha_m,
     N_s |-> 0, N_cx |-> 0, N_cy |-> 0, N_t |-> 0, k_t |-> 1,
     phiN_t |-> 0, phiN_c |-> 0, phiN_s |-> 0, phiV_v |-> 0,
     phiM_sx |-> 0, phiM_sy |-> 0, phiM_x |-> 0, phiM_y |-> 0,
     sig_figs |-> 3]

\* AS 4100 Cl 5.2.1, in N mm.
M_sx(m) == m.slenderness.Z_ex * m.mat.f_y

M_sy(m) == m.slenderness.Z_ey * m.mat.f_y

\* pi ** 2 * x, with pi ** 2 = 9.870
TimesPiSquared(x) == MulDiv(x, 9870, 1000)

\* AS 4100 Eq 5.6.1.1(3) for an open section with equal flanges, in
\* units of 100 N mm:
\*   ((pi^2 E I_y / l^2) * (G J + pi^2 E I_w / l^2)) ** 0.5
\* with E = 200000, G = 80000 and l in units of 100 mm.
reference_buckling_moment(geom, l_eb) ==
    LET l2 == (l_eb \div 100) * (l_eb \div 100)
        \* pi^2 E I_y / l^2, in N
        P == TimesPiSquared((20 * geom.I_y) \div l2)
        \* G J + pi^2 E I_w / l^2, in 10^4 N mm^2
        Q == 8 * geom.J + TimesPiSquared(MulDiv(geom.I_w, 2000, l2))
    IN  (ISqrt(16 * P) * ISqrt(16 * Q)) \div 16

\* 0.6 * (((M_s / M_oa) ** 2 + 3) ** 0.5 - M_s / M_oa), in thousandths;
\* M_s in N mm, M_oa in units of 100 N mm.
alpha_s(M_s, M_oa) ==
    LET r == MulDiv(M_s, 10, M_oa)
    IN  (6 * (ISqrt(r * r + 3000000) - r)) \div 10

alpha_sx(m) == alpha_s(M_sx(m), reference_buckling_moment(m.geom, m.l_eb))

\* Faulty variant: the end restraints are looked at whatever l_eb is.
M_bx_RestraintsFirst(m) ==
    IF m.end_i_restraint /\ m.end_j_restraint
    THEN [err |-> "", v |->
             IF m.l_eb > 0
             THEN Min2(MulDiv(MulDiv(M_sx(m), alpha_sx(m), 1000),
                              m.alpha_m, 100), M_sx(m))
             ELSE M_sx(m)]
    ELSE IF m.end_i_restraint \/ m.end_j_restraint
    THEN [err |-> "NotImplementedError", v |-> 0]
    ELSE [err |-> "ValueError", v |-> 0]

\* AS 4100 Cl 5.6: member moment capacity of a segment without full
\* lateral restraint; err names the exception raised, if any.
M_bx(m) ==
    IF m.l_eb > 0
    THEN IF m.end_i_restraint /\ m.end_j_restraint
         THEN [err |-> "", v |->
                  Min2(MulDiv(MulDiv(M_sx(m), alpha_sx(m), 1000),
                              m.alpha_m, 100), M_sx(m))]
         ELSE IF m.end_i_restraint \/ m.end_j_restraint
         THEN [err |-> "NotImplementedError", v |-> 0]
         ELSE [err |-> "ValueError", v |-> 0]
    ELSE [err |-> "", v |-> M_sx(m)]

\* AS 4100 Cl 6.2.1: k_f * A_n * f_y, in N; A_n is the gross area.
N_s(m) == MulDiv(m.geom.A_g * m.mat.f_y, m.slenderness.k_f.n,
                 m.slenderness.k_f.d)

\* (l_e / r) * (k_f * f_y / 250) ** 0.5, in hundredths; r in hundredths.
lam_n(m, l_e, r) ==
    (2 * l_e * ISqrt(100 * Thousandths(m.slenderness.k_f) * m.mat.f_y))
        \div r

\* 2100 * (lam_n - 13.5) / (lam_n ** 2 - 15.3 * lam_n + 2050), in
\* hundredths.
alpha_a(lam_n_c) ==
    (2100 * (lam_n_c - 1350))
        \div ((lam_n_c * lam_n_c - 1530 * lam_n_c + 20500000) \div 10000)

\* lam_n + alpha_a * alpha_b, in hundredths.
lam(m, l_e, r) ==
    lam_n(m, l_e, r)
        + (alpha_a(lam_n(m, l_e, r)) * m.slenderness.alpha_b.n)
              \div m.slenderness.alpha_b.d

\* max(0.00326 * (lam - 13.5), 0), in units of 10^-5.
eta(lam_c) ==
    IF lam_c > 1350 THEN (326 * (lam_c - 1350)) \div 100 ELSE 0

\* xi * (1 - (1 - (90 / (xi * lam)) ** 2) ** 0.5), in units of 10^-4, with
\* xi = ((lam / 90) ** 2 + 1 + eta) / (2 * (lam / 90) ** 2).  With
\* q = (lam / 90) ** 2 and c = 1 + q + eta, xi is c / (2 q) and the
\* expression is 2 / (c + (c ** 2 - 4 q) ** 0.5); it is evaluated in that
\* form, in which the fixed-point digits are not cancelled for small lam.
alpha_c(lam_c) ==
    LET q == (lam_c * lam_c) \div 810
        c == 100000 + q + eta(lam_c)
    IN  IF c < 400000
        THEN 200000000
                 \div ((c \div 10)
                       + ISqrt((c \div 10) * (c \div 10) - 4000 * q))
        ELSE 20000000
                 \div ((c \div 100)
                       + ISqrt((c \div 100) * (c \div 100) - 40 * q))

\* Faulty variant: the reduction is applied whatever the effective length
\* is, a zero length standing for one span.
N_c_AlwaysReduced(m, l_e, r) ==
    MulDiv(N_s(m), alpha_c(lam(m, IF l_e > 0 THEN l_e ELSE 1500, r)), 10000)

\* AS 4100 Cl 6.3.3: alpha_c * N_s when the effective length is positive,
\* N_s otherwise.
N_c(m, l_e, r) ==
    IF l_e > 0 THEN MulDiv(N_s(m), alpha_c(lam(m, l_e, r)), 10000)
    ELSE N_s(m)

N_cx(m) == N_c(m, m.l_ex, m.geom.r_x)

N_cy(m) == N_c(m, m.l_ey, m.geom.r_y)

\* AS 4100 Cl 7.2: min(A_g f_y, 0.85 k_t A_n f_u), in N.
N_t(m) ==
    PyMin(<<m.geom.A_g * m.mat.f_y,
            (85 * m.k_t * m.geom.A_g * m.mat.f_u) \div 100>>)

\* AS 4100 Cl 5.11.4: 0.6 f_yw A_w, in N.
V_w(m) ==
    IF isnan(m.mat.f_yw) THEN NaN ELSE (6 * m.mat.f_yw * A_w(m.geom)) \div 10

\* AS 4100 Cl 5.11.5: alpha_v * V_w
V_b(m) ==
    IF isnan(V_w(m)) \/ RNaN(m.slenderness.alpha_v) THEN NaN
    ELSE MulDiv(V_w(m), m.slenderness.alpha_v.n, m.slenderness.alpha_v.d)

\* AS 4100 Cl 5.11.2: the web yield capacity when yield governs, the
\* buckling capacity otherwise.
V_u(m) == IF m.slenderness.web_shear_yield_governs THEN V_w(m) ELSE V_b(m)

\* The shear stress in the web of an I-section is taken as uniform.
V_v(m) == V_u(m)

\* SteelMember(section, l_ex, l_ey, l_eb, ...): the dataclass fields are
\* set from the arguments and the defaults.
NewMember ==
    /\ mem.pc = "section"
    /\ \E l_ex \in Lengths, l_ey \in Lengths, l_eb \in Lengths,
          end_i_restraint \in BOOLEAN, end_j_restraint \in BOOLEAN,
          alpha_m \in MomentFactors :
          mem' = [mem EXCEPT !.pc = "member"]
                     @@ NewSteelMember(l_ex, l_ey, l_eb, end_i_restraint,
                                       end_j_restraint, alpha_m)
    /\ UNCHANGED <<conn, material, geometry, component, featured, section>>

\* The assignments of SteelMember.__post_init__.  The factored member
\* moment capacity goes to a new attribute phiM_bx; the declared phiM_x is
\* not assigned.
DesignCapacities(m) ==
    [m EXCEPT
       !.M_sx = M_sx(m), !.M_bx = M_bx(m).v, !.M_sy = M_sy(m),
       !.N_s = N_s(m), !.N_cx = N_cx(m), !.N_cy = N_cy(m),
       !.V_v = V_v(m), !.N_t = N_t(m),
       !.phiN_s = Factored(m.phi, N_s(m)),
       !.phiN_t = Factored(m.phi, N_t(m)),
       !.phiV_v = Factored(m.phi, V_v(m)),
       !.phiM_y = Factored(m.phi, M_sy(m)),
       !.phiM_sx = Factored(m.phi, M_sx(m)),
       !.phiM_sy = Factored(m.phi, M_sy(m)),
       !.phiN_c = Factored(m.phi, PyMin(<<N_s(m), N_cx(m), N_cy(m)>>))]
        @@ [phiM_bx |-> Factored(m.phi, PyMin(<<M_bx(m).v, M_sx(m)>>))]

\* SteelMember.__post_init__ up to the rounding loop.  When _M_bx raises,
\* the construction fails and no member is returned: pc names the
\* exception.
MemberCapacities ==
    /\ mem.pc = "member"
    /\ mem' = IF M_bx(mem).err # ""
              THEN [mem EXCEPT !.pc = M_bx(mem).err]
              ELSE [DesignCapacities(mem) EXCEPT !.pc = "round"]
    /\ UNCHANGED <<conn, material, geometry, component, featured, section>>

MemberNumbers ==
    {"l_ex", "l_ey", "l_eb", "M_sx", "M_bx", "M_sy", "V_v", "alpha_m",
     "N_s", "N_cx", "N_cy", "N_t", "k_t", "phiN_t", "phiN_c", "phiN_s",
     "phiV_v", "phiM_sx", "phiM_sy", "phiM_x", "phiM_y", "phiM_bx",
     "sig_figs"}

\* The closing loop of SteelMember.__post_init__: every numeric attribute
\* that is not NaN and not zero is rounded to sig_figs significant
\* figures.  The restraint flags are bools: True becomes 1, which is
\* still true.
RoundedMember(m) ==
    [k \in DOMAIN m |->
        IF k \in MemberNumbers THEN RoundSig(m[k], m.sig_figs)
        ELSE IF k = "phi" THEN RoundSigRat(m[k], m.sig_figs)
        ELSE m[k]]

RoundMember ==
    /\ mem.pc = "round"
    /\ mem' = [RoundedMember(mem) EXCEPT !.pc = "done"]
    /\ UNCHANGED <<conn, material, geometry, component, featured, section>>

MemNext ==
    \/ Components
    \/ SolveSlenderness
    \/ RoundSlenderness
    \/ NewMember
    \/ MemberCapacities
    \/ RoundMember

SpecMember == MemInit /\ [][MemNext]_vars

---------------------------------------------------------------------------
(* Properties of the section and of the member                             *)

Elements(components) == {components[i] : i \in 1..Len(components)}

\* The slenderness has been solved.
Classified == mem.pc \notin {"idle", "slenderness", "components"}

\* An element with the greatest lam_e / lam_ey of its list.
IsGoverning(p, components) ==
    /\ p \in Elements(components)
    /\ \A o \in Elements(components) : RLe(o.lam_e_ratio, p.lam_e_ratio)

\* The class that the limits, both inclusive, give to a governing element.
BoundaryClass(p, compact, Z_e, S, Z) ==
    /\ p.lam_e = Whole(p.lam_ep) => compact = "C"
    /\ RLe(p.lam_e, Whole(p.lam_ep)) =>
           /\ compact = "C"
           /\ mem.pc = "solved" => Z_e = Min2(S, (3 * Z) \div 2)
           /\ mem.pc # "solved" => Z_e = RoundSig(Min2(S, (3 * Z) \div 2), 3)
    /\ p.lam_e = Whole(p.lam_ey) => compact = "N"
    /\ compact = "S" <=> RLt(Whole(p.lam_ey), p.lam_e)

\* C6: for both axes, a governing element whose slenderness equals its
\* plasticity limit makes the section compact, with the compact effective
\* modulus min(S, 1.5 Z); one whose slenderness equals its yield limit
\* makes it noncompact; the section is slender exactly when the
\* slenderness is strictly above the yield limit.
C6_BoundariesInclusive ==
    Classified =>
        /\ \A p \in Elements(mem.slenderness.components_x) :
               IsGoverning(p, mem.slenderness.components_x) =>
                   BoundaryClass(p, mem.slenderness.compact_x,
                                 mem.slenderness.Z_ex, mem.geom.S_x,
                                 mem.geom.Z_x)
        /\ \A p \in Elements(mem.slenderness.components_y) :
               IsGoverning(p, mem.slenderness.components_y) =>
                   BoundaryClass(p, mem.slenderness.compact_y,
                                 mem.slenderness.Z_ey, mem.geom.S_y,
                                 mem.geom.Z_y)

\* A section whose governing flange outstand is exactly at its yield
\* limit for bending about x, classified noncompact.
C6_FlangeAtYieldLimit ==
    /\ mem.pc = "section"
    /\ \E p \in Elements(mem.slenderness.components_x) :
           /\ IsGoverning(p, mem.slenderness.components_x)
           /\ p.edge_sup = "One"
           /\ p.lam_e = Whole(p.lam_ey)
    /\ mem.slenderness.compact_x = "N"

RAdd(x, y) == RSub(x, RSub(Whole(0), y))

ExceedsYieldLimit(p) == RLt(Whole(p.lam_ey), p.lam_e)

\* The area of an element beyond the width lam_ey * t / (f_y / 250) ** 0.5
\* at which its slenderness equals the yield limit.
LostArea(p, f_y) ==
    IF ExceedsYieldLimit(p)
    THEN RMul(RSub(Rat(p.b2, 2),
                   RDiv(Whole(p.lam_ey * p.t), SqrtOver250(f_y))),
              Whole(p.t))
    ELSE Whole(0)

RECURSIVE SumLostArea(_, _, _)
SumLostArea(components, f_y, i) ==
    IF i > Len(components) THEN Whole(0)
    ELSE RAdd(LostArea(components[i], f_y),
              SumLostArea(components, f_y, i + 1))

\* (gross area - lost area of every compression element) / gross area
FormFactor ==
    RDiv(RSub(Whole(mem.geom.A_g),
              SumLostArea(mem.slenderness.components_c, mem.mat.f_y, 1)),
         Whole(mem.geom.A_g))

\* The section object has been returned: its attributes are rounded.
SectionBuilt == Classified /\ mem.pc # "solved"

\* C7: for every classified section, each compression element's effective
\* width is at most its full width and its lost area is not negative; the
\* form factor (gross area - lost areas) / gross area, as computed before
\* the rounding, is in (0, 1] and is 1 exactly when no compression element
\* exceeds its yield limit.  The stored k_f is that value rounded to 3
\* significant figures: it is in (0, 1], and it is 1 whenever no element
\* exceeds its yield limit.
C7_FormFactor ==
    Classified =>
        /\ \A p \in Elements(mem.slenderness.components_c) :
               /\ RLe(p.b_e, Rat(p.b2, 2))
               /\ RLe(Whole(0), p.A_v)
               /\ p.A_v = LostArea(p, mem.mat.f_y)
        /\ RLt(Whole(0), FormFactor)
        /\ RLe(FormFactor, Whole(1))
        /\ FormFactor = Whole(1) <=>
               \A p \in Elements(mem.slenderness.components_c) :
                   ~ExceedsYieldLimit(p)
        /\ mem.pc = "solved" => mem.slenderness.k_f = FormFactor
        /\ SectionBuilt =>
               /\ mem.slenderness.k_f = RoundSigRat(FormFactor, 3)
               /\ RLt(Whole(0), mem.slenderness.k_f)
               /\ RLe(mem.slenderness.k_f, Whole(1))

\* A section returned with k_f = 1.0 although its web exceeds the yield
\* limit: the lost area is rounded away.
C7_LossRoundedAway ==
    /\ mem.pc = "section"
    /\ mem.slenderness.k_f = Whole(1)
    /\ \E p \in Elements(mem.slenderness.components_c) : ExceedsYieldLimit(p)
    /\ RLt(FormFactor, Whole(1))

\* C7 as stated, on the k_f of the returned section: k_f is in (0, 1], no
\* lost area is negative, and k_f = 1 exactly when no compression element
\* exceeds its yield limit.
C7_StoredFormFactorIsOneOnlyWithoutLoss ==
    SectionBuilt =>
        /\ RLt(Whole(0), mem.slenderness.k_f)
        /\ RLe(mem.slenderness.k_f, Whole(1))
        /\ \A p \in Elements(mem.slenderness.components_c) :
               RLe(Whole(0), p.A_v)
        /\ mem.slenderness.k_f = Whole(1) <=>
               \A p \in Elements(mem.slenderness.components_c) :
                   ~ExceedsYieldLimit(p)

DesignCapacityOutputs ==
    {"phiN_t", "phiN_s", "phiN_c", "phiV_v", "phiM_sx", "phiM_sy", "phiM_x",
     "phiM_y"}

\* C8: after construction every design-capacity output is phi times the
\* minimum of its nominal capacities computed before rounding (rounded to
\* the significant figures of the member), phiM_x being
\* phi * min(M_bx, M_sx), and no declared output is left at zero.
C8_EveryDesignCapacityAssigned ==
    mem.pc = "done" =>
        /\ mem.phiN_t = RoundSig(Factored(mem.phi, N_t(mem)), 3)
        /\ mem.phiN_s = RoundSig(Factored(mem.phi, N_s(mem)), 3)
        /\ mem.phiN_c =
               RoundSig(Factored(mem.phi,
                                 PyMin(<<N_s(mem), N_cx(mem), N_cy(mem)>>)), 3)
        /\ mem.phiV_v = RoundSig(Factored(mem.phi, V_v(mem)), 3)
        /\ mem.phiM_sx = RoundSig(Factored(mem.phi, M_sx(mem)), 3)
        /\ mem.phiM_sy = RoundSig(Factored(mem.phi, M_sy(mem)), 3)
        /\ mem.phiM_y = RoundSig(Factored(mem.phi, M_sy(mem)), 3)
        /\ mem.phiM_x =
               RoundSig(Factored(mem.phi, PyMin(<<M_bx(mem).v, M_sx(mem)>>)),
                        3)
        /\ \A k \in DesignCapacityOutputs : mem[k] # 0

\* The outputs other than phiM_x are as C8 says; phiM_x is still zero and
\* the factored member moment capacity is in phiM_bx.
OutputsButPhiM_x ==
    mem.pc = "done" =>
        /\ mem.phiN_t = RoundSig(Factored(mem.phi, N_t(mem)), 3)
        /\ mem.phiN_s = RoundSig(Factored(mem.phi, N_s(mem)), 3)
        /\ mem.phiN_c =
               RoundSig(Factored(mem.phi,
                                 PyMin(<<N_s(mem), N_cx(mem), N_cy(mem)>>)), 3)
        /\ mem.phiV_v = RoundSig(Factored(mem.phi, V_v(mem)), 3)
        /\ mem.phiM_sx = RoundSig(Factored(mem.phi, M_sx(mem)), 3)
        /\ mem.phiM_sy = RoundSig(Factored(mem.phi, M_sy(mem)), 3)
        /\ mem.phiM_y = RoundSig(Factored(mem.phi, M_sy(mem)), 3)
        /\ mem.phiM_bx =
               RoundSig(Factored(mem.phi, PyMin(<<M_bx(mem).v, M_sx(mem)>>)),
                        3)
        /\ mem.phiM_x = 0

WebRatio == web_shear_slenderness_ratio(mem.geom, mem.mat)

\* 0.6 f_yw A_w of the section, in N.
WebYieldCapacity ==
    IF isnan(mem.mat.f_yw) THEN NaN
    ELSE (6 * mem.mat.f_yw * d_w(mem.geom) * mem.geom.t_w) \div 10

\* C9: web_shear_yield_governs is true exactly when the web slenderness
\* ratio is not at most 1 (above 1, or NaN for want of a web yield
\* stress), and the nominal uniform shear is then the web yield capacity;
\* when the ratio is at most 1 the flag is false and the capacity is
\* alpha_v * V_w with the stored alpha_v = min(ratio ** 2, 1), which is
\* V_w itself when the ratio is 1.
C9_YieldGovernsAboveOne ==
    /\ Classified =>
           (mem.slenderness.web_shear_yield_governs
                <=> ~RLe(WebRatio, Whole(1)))
    /\ mem.pc = "solved" =>
           mem.slenderness.alpha_v =
               IF RLt(Whole(1), RMul(WebRatio, WebRatio)) THEN Whole(1)
               ELSE RMul(WebRatio, WebRatio)
    /\ mem.pc = "round" =>
           /\ ~RLe(WebRatio, Whole(1)) => mem.V_v = WebYieldCapacity
           /\ RLe(WebRatio, Whole(1)) =>
                  mem.V_v = MulDiv(WebYieldCapacity,
                                   mem.slenderness.alpha_v.n,
                                   mem.slenderness.alpha_v.d)
           /\ WebRatio = Whole(1) => mem.V_v = WebYieldCapacity

\* A member whose web ratio is below 1: the flag is false and the shear
\* capacity is below the web yield capacity.
C9_BucklingReducedShear ==
    /\ mem.pc = "round"
    /\ RLt(WebRatio, Whole(1))
    /\ ~mem.slenderness.web_shear_yield_governs
    /\ mem.V_v < WebYieldCapacity

\* C9 as stated: web shear yield governs exactly when the ratio is at
\* most 1.
C9_YieldGovernsAtMostOne ==
    Classified =>
        (mem.slenderness.web_shear_yield_governs <=> RLe(WebRatio, Whole(1)))

ConstructionErrors == {"NotImplementedError", "ValueError"}

ExactlyOneEndRestrained == mem.end_i_restraint # mem.end_j_restraint

NoEndRestrained == ~mem.end_i_restraint /\ ~mem.end_j_restraint

\* C10: with l_eb > 0, constructing a member with exactly one end
\* restrained fails with NotImplementedError and with both ends
\* unrestrained fails with ValueError, and no member is produced after the
\* failure; with l_eb = 0 the restraints are not looked at and the member
\* is constructed with M_bx = M_sx.
C10_RestraintErrorsNeedBucklingLength ==
    /\ [][mem.pc = "member" =>
            /\ (mem.l_eb > 0 /\ ExactlyOneEndRestrained) =>
                   mem'.pc = "NotImplementedError"
            /\ (mem.l_eb > 0 /\ NoEndRestrained) => mem'.pc = "ValueError"
            /\ mem.l_eb = 0 =>
                   (mem'.pc = "round" /\ mem'.M_bx = mem'.M_sx)]_vars
    /\ [][mem.pc \notin ConstructionErrors]_vars

\* A construction with a buckling length and one end restrained, failed.
C10_OneEndRestrainedFails ==
    /\ mem.pc = "NotImplementedError"
    /\ mem.l_eb > 0
    /\ ExactlyOneEndRestrained

\* C10 as stated: whatever the effective lengths, a member is produced
\* only with both ends restrained.
C10_NoMemberUnlessBothEndsRestrained ==
    mem.pc \in {"round", "done"} =>
        (mem.end_i_restraint /\ mem.end_j_restraint)

\* C11: a member with l_ex = 0 and l_ey = 0 has N_cx = N_cy = N_s, before
\* and after the rounding, and its design member compression capacity
\* phiN_c equals its design section compression capacity phiN_s.
C11_NoBucklingReductionAtZeroLength ==
    (mem.pc \in {"round", "done"} /\ mem.l_ex = 0 /\ mem.l_ey = 0) =>
        /\ mem.N_cx = mem.N_s
        /\ mem.N_cy = mem.N_s
        /\ mem.phiN_c = mem.phiN_s

\* A finished member of zero effective lengths whose section loses area
\* in compression.
C11_ZeroLengthMember ==
    /\ mem.pc = "done"
    /\ mem.l_ex = 0
    /\ mem.l_ey = 0
    /\ RLt(mem.slenderness.k_f, Whole(1))
    /\ mem.phiN_c = mem.phiN_s
    /\ mem.phiN_c > 0


---------------------------------------------------------------------------
(* Material lookup (member/material.py)                                    *)

\* The outcome of a call: the exception that leaves it, or its value.
Raise(e) == [err |-> e, v |-> NaN]

Return(x) == [err |-> "", v |-> x]

UnknownGrade == Raise("ValueError: unknown material grade")

MissingThickness == Raise("ValueError: please provide a plate thickness t")

\* A local name read before any branch assigned it.
Unbound == Raise("UnboundLocalError")

\* AS1163_fy: hollow sections, the thickness is unused.
AS1163_fy(grade, t) ==
    CASE grade = "C450" -> Return(450)
      [] grade = "C350" -> Return(350)
      [] grade = "C250" -> Return(250)
      [] OTHER -> UnknownGrade

AS1163_fu(grade, t) ==
    CASE grade = "C450" -> Return(500)
      [] grade = "C350" -> Return(430)
      [] grade = "C250" -> Return(320)
      [] OTHER -> UnknownGrade

\* AS3678_fy: hot-rolled plates.  The GR450 bands are an `if` of their own,
\* followed by the if/elif chain of the other grades whose `else` raises.
AS3678_fy(grade, t) ==
    IF t = NaN THEN MissingThickness
    ELSE LET fy0 == IF grade = "GR450"
                    THEN IF t <= 20 THEN Return(450)
                         ELSE IF t <= 32 THEN Return(420)
                         ELSE IF t <= 50 THEN Return(400)
                         ELSE Unbound
                    ELSE Unbound
         IN CASE grade = "GR400" ->
                   IF t <= 12 THEN Return(400)
                   ELSE IF t <= 20 THEN Return(380)
                   ELSE IF t <= 80 THEN Return(360)
                   ELSE fy0
              [] grade = "GR350" ->
                   IF t <= 12 THEN Return(360)
                   ELSE IF t <= 20 THEN Return(350)
                   ELSE IF t <= 80 THEN Return(340)
                   ELSE IF t <= 150 THEN Return(330)
                   ELSE fy0
              [] grade = "WR350" ->
                   IF t <= 50 THEN Return(340) ELSE fy0
              [] grade = "GR300" ->
                   IF t <= 8 THEN Return(320)
                   ELSE IF t <= 12 THEN Return(310)
                   ELSE IF t <= 20 THEN Return(300)
                   ELSE IF t <= 50 THEN Return(280)
                   ELSE IF t <= 80 THEN Return(270)
                   ELSE IF t <= 150 THEN Return(260)
                   ELSE fy0
              [] grade = "GR250" ->
                   IF t <= 8 THEN Return(280)
                   ELSE IF t <= 12 THEN Return(260)
                   ELSE IF t <= 50 THEN Return(250)
                   ELSE IF t <= 80 THEN Return(240)
                   ELSE IF t <= 150 THEN Return(230)
                   ELSE fy0
              [] grade = "GR200" ->
                   IF t <= 12 THEN Return(200) ELSE fy0
              [] OTHER -> UnknownGrade

AS3678_fu(grade, t) ==
    CASE grade = "GR450" -> Raise("NotImplementedError")
      [] grade = "GR400" -> Return(480)
      [] grade = "GR350" -> Return(450)
      [] grade = "WR350" -> Return(450)
      [] grade = "GR300" -> Return(430)
      [] grade = "GR250" -> Return(410)
      [] grade = "GR200" -> Return(300)
      [] OTHER -> UnknownGrade

\* AS3679_sections_fy: hot-rolled sections.
AS3679_sections_fy(grade, t) ==
    IF t = NaN THEN MissingThickness
    ELSE CASE grade = "GR350" ->
                IF t <= 11 THEN Return(360)
                ELSE IF t < 40 THEN Return(340)
                ELSE Return(330)
           [] grade = "GR300" ->
                IF t < 11 THEN Return(320)
                ELSE IF t <= 17 THEN Return(300)
                ELSE Return(280)
           [] OTHER -> UnknownGrade

AS3679_sections_fu(grade, t) ==
    CASE grade = "GR350" -> Return(480)
      [] grade = "GR300" -> Return(440)
      [] OTHER -> UnknownGrade

\* AS3597_fy: pressure vessel plate; no band holds 65 <= t < 110, and
\* none holds a NaN thickness.
AS3597_fy(grade, t) ==
    CASE grade = "PR500" -> Return(500)
      [] grade = "PR600" -> Return(600)
      [] grade = "PR700" ->
           IF PyLt(t, 5) \/ t = 5 THEN Return(650)
           ELSE IF PyLt(t, 65) THEN Return(690)
           ELSE IF PyLt(110, t) \/ t = 110 THEN Return(620)
           ELSE Unbound
      [] OTHER -> UnknownGrade

AS3597_fu(grade, t) ==
    CASE grade = "PR500" -> Return(590)
      [] grade = "PR600" -> Return(690)
      [] grade = "PR700" ->
           IF PyLt(t, 5) \/ t = 5 THEN Return(750)
           ELSE IF PyLt(t, 65) THEN Return(790)
           ELSE IF PyLt(110, t) \/ t = 110 THEN Return(720)
           ELSE Unbound
      [] OTHER -> UnknownGrade

\* material_type_functions: the standard of a material type.  The match
\* has no default case, the return reads names no case assigned.
material_type_functions(mat_type) ==
    CASE mat_type = "HollowSection" -> Return("AS1163")
      [] mat_type = "HotRolledPlate" -> Return("AS3678")
      [] mat_type = "HotRolledSection" -> Return("AS3679")
      [] mat_type = "PressurePlate" -> Return("AS3597")
      [] mat_type = "WeldedSection" -> Return("AS3678")
      [] OTHER -> Unbound

\* SteelMaterial._f_y
f_y_of(mat_type, grade, t) ==
    LET std == material_type_functions(mat_type)
    IN IF std.err # "" THEN std
       ELSE CASE std.v = "AS1163" -> AS1163_fy(grade, t)
              [] std.v = "AS3678" -> AS3678_fy(grade, t)
              [] std.v = "AS3679" -> AS3679_sections_fy(grade, t)
              [] std.v = "AS3597" -> AS3597_fy(grade, t)

\* SteelMaterial._f_u: the tensile strength, looked up without a thickness.
f_u_of(mat_type, grade) ==
    LET std == material_type_functions(mat_type)
    IN IF std.err # "" THEN std
       ELSE CASE std.v = "AS1163" -> AS1163_fu(grade, NaN)
              [] std.v = "AS3678" -> AS3678_fu(grade, NaN)
              [] std.v = "AS3679" -> AS3679_sections_fu(grade, NaN)
              [] std.v = "AS3597" -> AS3597_fu(grade, NaN)

\* SteelMaterial._res_stress: a match without a case for PressurePlate and
\* without a default case.
res_stress_of(mat_type) ==
    CASE mat_type = "HollowSection" -> Return("CF")
      [] mat_type = "HotRolledPlate" -> Return("HR")
      [] mat_type = "HotRolledSection" -> Return("HR")
      [] mat_type = "WeldedSection" -> Return("HW")
      [] OTHER -> Unbound

Grades ==
    {"GR450", "GR400", "GR350", "WR350", "GR300", "GR250", "GR200",
     "C350", "PR700", "GR999"}

MatTypes ==
    {"HollowSection", "HotRolledPlate", "HotRolledSection", "PressurePlate",
     "WeldedSection", "HotRolledBar"}

\* Thicknesses in mm; NaN is the thickness that was not given.
PlateThicknesses == {NaN, 8, 12, 20, 32, 50, 80, 150}

FlangeThicknesses == {NaN, 11, 40}

WebThicknesses == {NaN, 8}

\* The dataclass fields of a SteelMaterial before __post_init__.
NewMaterial(grade, mat_type, t, t_f, t_w) ==
    [pc |-> "t", err |-> "", grade |-> grade, mat_type |-> mat_type,
     f_y |-> 0, f_u |-> 0, res_stress |-> "HR",
     t |-> t, t_f |-> t_f, t_w |-> t_w, f_yw |-> NaN]

MatInit ==
    /\ featured = Idle
    /\ section = Idle
    /\ conn = Idle
    /\ mem = Idle
    /\ geometry = Idle
    /\ component = Idle
    /\ material \in {NewMaterial(g, mt, t, t_f, t_w) :
                        g \in Grades, mt \in MatTypes,
                        t \in PlateThicknesses, t_f \in FlangeThicknesses,
                        t_w \in WebThicknesses}

\* The material after an assignment of the outcome r of a call to the
\* attribute named field, or after the exception of r.
Assigned(m, field, r, next) ==
    IF r.err # "" THEN [m EXCEPT !.pc = "error", !.err = r.err]
    ELSE [m EXCEPT !.pc = next, ![field] = r.v]

\* solve_mat: f_y from the plate thickness, when one is given.
YieldFromPlateThickness ==
    /\ material.pc = "t"
    /\ material' =
         IF ~isnan(material.t)
         THEN Assigned(material, "f_y",
                       f_y_of(material.mat_type, material.grade, material.t),
                       "t_f")
         ELSE [material EXCEPT !.pc = "t_f"]
    /\ UNCHANGED <<conn, mem, geometry, component, featured, section>>

\* solve_mat: f_y from the flange thickness, when one is given.
YieldFromFlangeThickness ==
    /\ material.pc = "t_f"
    /\ material' =
         IF ~isnan(material.t_f)
         THEN Assigned(material, "f_y",
                       f_y_of(material.mat_type, material.grade, material.t_f),
                       "t_w")
         ELSE [material EXCEPT !.pc = "t_w"]
    /\ UNCHANGED <<conn, mem, geometry, component, featured, section>>

\* solve_mat: f_yw from the web thickness, when one is given.
WebYieldFromWebThickness ==
    /\ material.pc = "t_w"
    /\ material' =
         IF ~isnan(material.t_w)
         THEN Assigned(material, "f_yw",
                       f_y_of(material.mat_type, material.grade, material.t_w),
                       "f_u")
         ELSE [material EXCEPT !.pc = "f_u"]
    /\ UNCHANGED <<conn, mem, geometry, component, featured, section>>

\* solve_mat: self.f_u = self._f_u()
TensileStrength ==
    /\ material.pc = "f_u"
    /\ material' = Assigned(material, "f_u",
                            f_u_of(material.mat_type, material.grade),
                            "res_stress")
    /\ UNCHANGED <<conn, mem, geometry, component, featured, section>>

\* solve_mat: self.res_stress = self._res_stress()
ResidualStress ==
    /\ material.pc = "res_stress"
    /\ material' = Assigned(material, "res_stress",
                            res_stress_of(material.mat_type), "done")
    /\ UNCHANGED <<conn, mem, geometry, component, featured, section>>

MatNext ==
    \/ YieldFromPlateThickness
    \/ YieldFromFlangeThickness
    \/ WebYieldFromWebThickness
    \/ TensileStrength
    \/ ResidualStress

SpecMaterial == MatInit /\ [][MatNext]_vars


---------------------------------------------------------------------------
(* Properties of the material lookup                                       *)

\* AS 4100 Table 2.1, AS/NZS 3678 plate: the bands of a grade, each the
\* greatest thickness of the band and its yield stress.
PlateBands(grade) ==
    CASE grade = "GR450" -> <<(<<20, 450>>), (<<32, 420>>), (<<50, 400>>)>>
      [] grade = "GR400" -> <<(<<12, 400>>), (<<20, 380>>), (<<80, 360>>)>>
      [] grade = "GR350" ->
           <<(<<12, 360>>), (<<20, 350>>), (<<80, 340>>), (<<150, 330>>)>>
      [] grade = "WR350" -> <<(<<50, 340>>)>>
      [] grade = "GR300" ->
           <<(<<8, 320>>), (<<12, 310>>), (<<20, 300>>), (<<50, 280>>),
             (<<80, 270>>), (<<150, 260>>)>>
      [] grade = "GR250" ->
           <<(<<8, 280>>), (<<12, 260>>), (<<50, 250>>), (<<80, 240>>),
             (<<150, 230>>)>>
      [] grade = "GR200" -> <<(<<12, 200>>)>>

PlateTableGrades ==
    {"GR450", "GR400", "GR350", "WR350", "GR300", "GR250", "GR200"}

InABand(grade, t) ==
    \E i \in DOMAIN PlateBands(grade) : t <= PlateBands(grade)[i][1]

\* The yield stress of the first band that holds t.
BandYield(grade, t) ==
    LET bands == PlateBands(grade)
        i == CHOOSE k \in DOMAIN bands :
                /\ t <= bands[k][1]
                /\ \A j \in DOMAIN bands : t <= bands[j][1] => k <= j
    IN bands[i][2]

KnownMatTypes ==
    {"HollowSection", "HotRolledPlate", "HotRolledSection", "PressurePlate",
     "WeldedSection"}

\* C12: in the hot-rolled-plate standard every grade of the table with a
\* thickness inside one of its bands resolves to the yield stress of that
\* band, exactly the grades outside the table raise the unknown-grade
\* error, and a product standard that is not known raises as well.
C12_PlateTableResolves ==
    [][/\ (/\ material.pc = "t"
           /\ ~isnan(material.t)
           /\ material.mat_type = "HotRolledPlate") =>
             /\ (/\ material.grade \in PlateTableGrades
                 /\ InABand(material.grade, material.t)) =>
                    /\ material'.err = ""
                    /\ material'.f_y = BandYield(material.grade, material.t)
             /\ material.grade \notin PlateTableGrades
                    <=> material'.err = UnknownGrade.err
       /\ (/\ material.pc \in {"t", "f_u"}
           /\ material.pc = "t" => ~isnan(material.t)
           /\ material.mat_type \notin KnownMatTypes) =>
             material'.pc = "error"]_vars


ThicknessDependent == {"HotRolledPlate", "HotRolledSection", "WeldedSection"}

NoThickness(m) == isnan(m.t) /\ isnan(m.t_f) /\ isnan(m.t_w)

\* The grade is one of the standard of the material type.
GradeOfStandard(m) == f_u_of(m.mat_type, m.grade).err = ""

\* C13: the construction of a SteelMaterial of a thickness-dependent
\* standard, of a grade of that standard, with none of t, t_f and t_w
\* given ends in the missing-input error, never in a material object.
C13_NoThicknessRaises ==
    (/\ material.pc \in {"done", "error"}
     /\ material.mat_type \in ThicknessDependent
     /\ GradeOfStandard(material)
     /\ NoThickness(material)) =>
        /\ material.pc = "error"
        /\ material.err = MissingThickness.err


---------------------------------------------------------------------------
(* Section geometry (member/geometry.py, shape/ishape.py, cshape.py,       *)
(* tshape.py, rectangleplate.py)                                           *)
(*                                                                         *)
(* The dimensions and the gross properties are exact rationals.  The       *)
(* torsion and warping constants and the radii of gyration are left out:   *)
(* the first two carry decimal coefficients to the fourth power, the last  *)
(* a square root.  The circular and rectangular hollow families are        *)
(* known to the dispatch and are not constructed.                          *)

LCM(a, b) == (a \div GCD(a, b)) * b

\* x + y on the least common denominator.
RPlus(x, y) ==
    IF RNaN(x) \/ RNaN(y) THEN Rat(NaN, 1)
    ELSE LET l == LCM(x.d, y.d)
         IN  Rat(x.n * (l \div x.d) + y.n * (l \div y.d), l)

RMinus(x, y) ==
    IF RNaN(x) \/ RNaN(y) THEN Rat(NaN, 1)
    ELSE RPlus(x, [n |-> -y.n, d |-> y.d])

\* x * y, the common factors taken out before the products.
RTimes(x, y) ==
    IF RNaN(x) \/ RNaN(y) THEN Rat(NaN, 1)
    ELSE LET g1 == GCD(Abs(x.n), y.d)
             g2 == GCD(Abs(y.n), x.d)
         IN  Rat((x.n \div g1) * (y.n \div g2), (x.d \div g2) * (y.d \div g1))

\* x / y for y > 0.
RQuot(x, y) ==
    IF RNaN(x) \/ RNaN(y) THEN Rat(NaN, 1)
    ELSE RTimes(x, [n |-> y.d, d |-> y.n])

RSq(x) == RTimes(x, x)

RCube(x) == RTimes(x, RTimes(x, x))

Sum3(x, y, z) == RPlus(RPlus(x, y), z)

Sum4(w, x, y, z) == RPlus(Sum3(w, x, y), z)

Prod3(x, y, z) == RTimes(RTimes(x, y), z)

\* x / k for a whole k > 0.
Over(x, k) == RTimes(x, Rat(1, k))

\* builtin max(x, y): y when y > x, x otherwise.
PyMaxR(x, y) == IF RLt(x, y) THEN y ELSE x

\* 1 - math.pi / 4, with 355 / 113 for pi.  It multiplies the square of
\* the radius only.
OneMinusQuarterPi == Rat(97, 452)

\* r_1 = 0 if math.isnan(params.r_1) else params.r_1
RadiusOrZero(r_1) == IF RNaN(r_1) THEN Whole(0) ELSE r_1

\* The fillet taken as a point area: (1 - pi/4) * r^2.
FilletArea(r) == RTimes(OneMinusQuarterPi, RSq(r))

\* 0.01825 * r^4
FilletInertia(r) == RTimes(Rat(1825, 100000), RSq(RSq(r)))

\* 0.776 * r
FilletCentre(r) == RTimes(Rat(776, 1000), r)

---------------------------------------------------------------------------
(* shape/ishape.py                                                         *)

ishape_A_g(p) ==
    LET b_w == RMinus(p.d, RTimes(Whole(2), p.t_f))
        r_1 == RadiusOrZero(p.r_1)
    IN  Sum3(Prod3(Whole(2), p.b, p.t_f),
             RTimes(p.t_w, b_w),
             RTimes(Whole(4), FilletArea(r_1)))

ishape_I_x(p) ==
    LET b_w == RMinus(p.d, RTimes(Whole(2), p.t_f))
        r_1 == RadiusOrZero(p.r_1)
        arm == RMinus(RPlus(RMinus(FilletCentre(r_1), r_1), Over(p.d, 2)),
                      p.t_f)
    IN  Sum3(RTimes(Whole(2),
                    RPlus(Over(RTimes(p.b, RCube(p.t_f)), 12),
                          Prod3(p.b, p.t_f,
                                RSq(Over(RMinus(p.d, p.t_f), 2))))),
             Over(RTimes(p.t_w, RCube(b_w)), 12),
             RTimes(Whole(4),
                    RPlus(FilletInertia(r_1),
                          RTimes(FilletArea(r_1), RSq(arm)))))

ishape_I_y(p) ==
    LET b_w == RMinus(p.d, RTimes(Whole(2), p.t_f))
        r_1 == RadiusOrZero(p.r_1)
        arm == RPlus(RMinus(r_1, FilletCentre(r_1)), Over(p.t_w, 2))
    IN  Sum3(Over(RTimes(b_w, RCube(p.t_w)), 12),
             RTimes(Whole(2), Over(RTimes(p.t_f, RCube(p.b)), 12)),
             RTimes(Whole(4),
                    RPlus(FilletInertia(r_1),
                          RTimes(FilletArea(r_1), RSq(arm)))))

ishape_S_x(p) ==
    LET b_w == RMinus(p.d, RTimes(Whole(2), p.t_f))
        r_1 == RadiusOrZero(p.r_1)
        arm == RMinus(RPlus(RMinus(FilletCentre(r_1), r_1), Over(p.d, 2)),
                      p.t_f)
    IN  RPlus(RTimes(Whole(2),
                     RPlus(Over(RTimes(p.t_w, RSq(Over(b_w, 2))), 2),
                           Over(Prod3(p.t_f, p.b, RMinus(p.d, p.t_f)), 2))),
              Prod3(Whole(4), FilletArea(r_1), arm))

ishape_S_y(p) ==
    LET b_w == RMinus(p.d, RTimes(Whole(2), p.t_f))
        r_1 == RadiusOrZero(p.r_1)
        arm == RPlus(RMinus(r_1, FilletCentre(r_1)), Over(p.t_w, 2))
    IN  RPlus(RTimes(Whole(2),
                     RPlus(Over(RTimes(b_w, RSq(Over(p.t_w, 2))), 2),
                           Over(Prod3(Whole(2), p.t_f, RSq(Over(p.b, 2))),
                                2))),
              Prod3(Whole(4), FilletArea(r_1), arm))

---------------------------------------------------------------------------
(* shape/tshape.py: the radius is read as it is but in I_y and S_y         *)

tshape_A_g(p) ==
    LET b_w == RMinus(p.d, p.t_f)
    IN  Sum3(RTimes(p.b, p.t_f),
             RTimes(p.t_w, b_w),
             RTimes(Whole(2), FilletArea(p.r_1)))

tshape_y_c(p) ==
    LET b_w == RMinus(p.d, p.t_f)
    IN  RQuot(Sum3(Prod3(p.t_w, b_w, RPlus(Over(b_w, 2), p.t_f)),
                  Over(RTimes(p.b, RSq(p.t_f)), 2),
                  Prod3(Whole(2), FilletArea(p.r_1),
                        RPlus(p.t_f,
                              RMinus(Whole(1), FilletCentre(p.r_1))))),
             tshape_A_g(p))

tshape_I_x(p) ==
    LET b_w == RMinus(p.d, p.t_f)
        y_cur == tshape_y_c(p)
        arm == RMinus(y_cur,
                      RPlus(p.t_f, RTimes(Rat(224, 1000), p.r_1)))
    IN  RPlus(Sum4(Over(RPlus(RTimes(p.b, RCube(p.t_f)),
                              RTimes(p.t_w, RCube(b_w))), 12),
                   RTimes(Whole(2), FilletInertia(p.r_1)),
                   Prod3(p.b, p.t_f, RSq(RMinus(y_cur, Over(p.t_f, 2)))),
                   Prod3(b_w, p.t_w,
                         RSq(RMinus(y_cur, RPlus(p.t_f, Over(b_w, 2)))))),
              Prod3(Whole(2), FilletArea(p.r_1), RSq(arm)))

tshape_I_y(p) ==
    LET b_w == RMinus(Over(p.d, 2), p.t_f)
        r_1 == RadiusOrZero(p.r_1)
        arm == RPlus(RMinus(r_1, FilletCentre(r_1)), Over(p.t_w, 2))
    IN  Sum3(Over(RTimes(b_w, RCube(p.t_w)), 12),
             Over(RTimes(p.t_f, RCube(p.b)), 12),
             RTimes(Whole(2),
                    RPlus(FilletInertia(r_1),
                          RTimes(FilletArea(r_1), RSq(arm)))))

tshape_S_x(p) ==
    IF RLt(p.t_f, RQuot(tshape_A_g(p), RTimes(Whole(2), p.b)))
    THEN RMinus(RPlus(Over(RTimes(p.t_w, RSq(RMinus(p.d, p.t_f))), 4),
                      Over(Prod3(p.b, p.d, p.t_f), 2)),
                RQuot(RTimes(RSq(p.b), RSq(p.t_f)),
                     RTimes(Whole(4), p.t_w)))
    ELSE RMinus(RMinus(RPlus(Over(RTimes(p.t_w, RSq(p.d)), 2),
                             Over(RTimes(p.b, RSq(p.t_f)), 4)),
                       Over(Prod3(p.d, p.t_f, p.t_w), 2)),
                RQuot(RTimes(RSq(RMinus(p.d, p.t_f)), RSq(p.t_w)),
                     RTimes(Whole(4), p.b)))

tshape_S_y(p) ==
    LET b_w == RMinus(p.d, p.t_f)
        r_1 == RadiusOrZero(p.r_1)
        arm == RPlus(RMinus(r_1, FilletCentre(r_1)), Over(p.t_w, 2))
    IN  Sum3(Over(Prod3(Whole(2), b_w, RSq(Over(p.t_w, 2))), 2),
             Over(Prod3(Whole(2), p.t_f, RSq(Over(p.b, 2))), 2),
             Prod3(Whole(2), FilletArea(r_1), arm))

---------------------------------------------------------------------------
(* shape/cshape.py: the radius is read as it is                            *)

cshape_A_g(p) ==
    LET b_f == RMinus(p.b, p.t_w)
    IN  Sum3(Prod3(Whole(2), p.t_f, b_f),
             RTimes(p.d, p.t_w),
             RTimes(Whole(2), FilletArea(p.r_1)))

cshape_x_c(p) ==
    LET b_w == RMinus(p.d, RTimes(Whole(2), p.t_f))
    IN  RQuot(Sum3(RTimes(Over(RSq(p.t_w), 2), b_w),
                  RTimes(Over(RTimes(Whole(2), RSq(p.b)), 2), p.t_f),
                  Prod3(Whole(2), FilletArea(p.r_1),
                        RPlus(RMinus(p.r_1, FilletCentre(p.r_1)), p.t_w))),
             cshape_A_g(p))

cshape_x_pna(p) ==
    IF RLt(p.t_w, RQuot(cshape_A_g(p), RTimes(Whole(2), p.d)))
    THEN RMinus(p.b, RQuot(cshape_A_g(p), RTimes(Whole(4), p.t_f)))
    ELSE RQuot(cshape_A_g(p), RTimes(Whole(2), p.d))

cshape_I_x(p) ==
    LET b_f == RMinus(p.b, p.t_w)
        arm == RMinus(RPlus(RMinus(FilletCentre(p.r_1), p.r_1),
                            Over(p.d, 2)), p.t_f)
    IN  Sum4(Over(RTimes(p.t_w, RCube(p.d)), 12),
             Over(Prod3(Whole(2), RCube(p.t_f), b_f), 12),
             Prod3(RTimes(p.t_f, b_f), Whole(2),
                   RSq(RMinus(Over(p.d, 2), Over(p.t_f, 2)))),
             RTimes(Whole(2),
                    RPlus(FilletInertia(p.r_1),
                          RTimes(FilletArea(p.r_1), RSq(arm)))))

cshape_I_y(p) ==
    LET b_w == RMinus(p.d, RTimes(Whole(2), p.t_f))
        x_cur == cshape_x_c(p)
        arm == RMinus(RMinus(x_cur, p.t_w), RTimes(Rat(224, 1000), p.r_1))
    IN  RPlus(Sum4(Over(RTimes(b_w, RCube(p.t_w)), 12),
                   Over(Prod3(Whole(2), RCube(p.b), p.t_f), 12),
                   Prod3(b_w, p.t_w, RSq(RMinus(x_cur, Over(p.t_w, 2)))),
                   Prod3(RTimes(Whole(2), p.t_f), p.b,
                         RSq(RMinus(Over(p.b, 2), x_cur)))),
              RTimes(Whole(2),
                     RPlus(FilletInertia(p.r_1),
                           RTimes(FilletArea(p.r_1), RSq(arm)))))

cshape_S_x(p) ==
    LET b_w == RMinus(p.d, RTimes(Whole(2), p.t_f))
        arm == RMinus(RPlus(RMinus(FilletCentre(p.r_1), p.r_1),
                            Over(p.d, 2)), p.t_f)
    IN  RPlus(RTimes(Whole(2),
                     RPlus(Over(RTimes(p.t_w, RSq(Over(b_w, 2))), 2),
                           Prod3(p.t_f, p.b,
                                 RMinus(Over(p.d, 2), Over(p.t_f, 2))))),
              Prod3(Whole(2), FilletArea(p.r_1), arm))

cshape_S_y(p) ==
    LET b_f == RMinus(p.b, p.t_w)
        b_w == RMinus(p.d, RTimes(Whole(2), p.t_f))
        x_cur == cshape_x_pna(p)
        plates ==
          IF RLt(p.t_w, x_cur)
          THEN RMinus(RPlus(Over(RTimes(p.t_f, RSq(b_f)), 2),
                            Over(Prod3(p.b, p.d, p.t_w), 2)),
                      RQuot(Over(RTimes(RSq(p.d), RSq(p.t_w)), 8), p.t_f))
          ELSE RTimes(RQuot(Whole(1), RTimes(Whole(4), p.d)),
                      RMinus(RPlus(Prod3(RTimes(Whole(4), p.t_f), RSq(p.b),
                                         RMinus(p.d, p.t_f)),
                                   RTimes(RSq(p.t_w),
                                          RMinus(RSq(p.d),
                                                 RTimes(Whole(4),
                                                        RSq(p.t_f))))),
                             Prod3(RTimes(Whole(4), p.b), p.t_f,
                                   RTimes(b_w, p.t_w))))
        x_rad == RTimes(Rat(224, 1000), p.r_1)
        x_fillet == IF RLt(RPlus(p.t_w, x_rad), x_cur)
                    THEN RMinus(RMinus(x_cur, p.t_w), x_rad)
                    ELSE RPlus(RMinus(p.t_w, x_cur), x_rad)
    IN  RPlus(plates, Prod3(Whole(2), FilletArea(p.r_1), x_fillet))

---------------------------------------------------------------------------
(* shape/rectangleplate.py                                                 *)

rectangleplate_A_g(p) == RTimes(p.d, p.b)

rectangleplate_I_x(p) == Over(RTimes(p.b, RCube(p.d)), 12)

rectangleplate_I_y(p) == Over(RTimes(p.d, RCube(p.b)), 12)

rectangleplate_S_x(p) == Over(RTimes(p.b, RSq(p.d)), 4)

rectangleplate_S_y(p) == Over(RTimes(p.d, RSq(p.b)), 4)


---------------------------------------------------------------------------
(* SectionGeometry (member/geometry.py)                                    *)

\* solve_shape: the shape module of a section type.
shape_fn(sec_type) ==
    CASE sec_type \in {"CHS"} -> Return("circularhollow")
      [] sec_type \in {"RHS", "SHS"} -> Return("rectangularhollow")
      [] sec_type \in {"WB", "WC", "UB", "UC"} -> Return("ishape")
      [] sec_type \in {"PFC"} -> Return("cshape")
      [] sec_type \in {"BT", "CT"} -> Return("tshape")
      [] sec_type \in {"RectPlate"} -> Return("rectangleplate")
      [] OTHER -> Raise("NotImplementedError: no shape function")

\* SteelSlenderness.__post_init__: the components method of a section
\* type.
components_method(sec_type) ==
    CASE sec_type \in {"UB", "UC", "WB", "WC"} ->
           Return("i_section_components")
      [] sec_type \in {"PFC", "TFB"} -> Return("c_section_components")
      [] sec_type \in {"SHS", "RHS"} -> Return("rhs_section_components")
      [] sec_type \in {"CHS"} -> Return("chs_section_components")
      [] sec_type \in {"BT", "CT"} -> Return("t_section_components")
      [] sec_type \in {"RectPlate"} -> Return("rect_section_components")
      [] OTHER -> Raise("NotImplementedError: section type not available")

\* shape_fn.A_g(self), .I_x, .I_y, .S_x and .S_y assigned to the object,
\* for the families that are constructed.
WithShape(fn, p) ==
    CASE fn = "ishape" ->
           [p EXCEPT !.A_g = ishape_A_g(p), !.I_x = ishape_I_x(p),
                     !.I_y = ishape_I_y(p), !.S_x = ishape_S_x(p),
                     !.S_y = ishape_S_y(p)]
      [] fn = "cshape" ->
           [p EXCEPT !.A_g = cshape_A_g(p), !.I_x = cshape_I_x(p),
                     !.I_y = cshape_I_y(p), !.S_x = cshape_S_x(p),
                     !.S_y = cshape_S_y(p)]
      [] fn = "tshape" ->
           [p EXCEPT !.A_g = tshape_A_g(p), !.I_x = tshape_I_x(p),
                     !.I_y = tshape_I_y(p), !.S_x = tshape_S_x(p),
                     !.S_y = tshape_S_y(p)]
      [] fn = "rectangleplate" ->
           [p EXCEPT !.A_g = rectangleplate_A_g(p),
                     !.I_x = rectangleplate_I_x(p),
                     !.I_y = rectangleplate_I_y(p),
                     !.S_x = rectangleplate_S_x(p),
                     !.S_y = rectangleplate_S_y(p)]

\* SectionGeometry.x_max
x_max(p) ==
    IF p.sec_type \in {"CHS"} THEN Over(p.d, 2)
    ELSE IF p.sec_type \in {"PFC"}
         THEN PyMaxR(cshape_x_c(p), RMinus(p.b, cshape_x_c(p)))
         ELSE Over(p.b, 2)

\* SectionGeometry.y_max
y_max(p) ==
    IF p.sec_type \in {"BT", "CT"}
    THEN PyMaxR(tshape_y_c(p), RMinus(p.d, tshape_y_c(p)))
    ELSE Over(p.d, 2)

\* The dataclass fields of a SectionGeometry before __post_init__.
NewGeometry(sec_type, d, b, t_f, t_w, r_1, sig_figs) ==
    [pc |-> "post_init", err |-> "", sec_type |-> sec_type,
     d |-> d, b |-> b, t_f |-> t_f, t_w |-> t_w, r_1 |-> r_1,
     A_g |-> Rat(NaN, 1), I_x |-> Rat(NaN, 1), I_y |-> Rat(NaN, 1),
     S_x |-> Rat(NaN, 1), S_y |-> Rat(NaN, 1),
     Z_x |-> Rat(NaN, 1), Z_y |-> Rat(NaN, 1),
     x_c |-> Whole(0), y_c |-> Whole(0), sig_figs |-> sig_figs]

\* The section types given to the constructor: the families that are
\* constructed, the empty default, and two tags that have no shape
\* function.
GeometryTags ==
    {"", "TFB", "BC", "UB", "UC", "WB", "WC", "PFC", "BT", "CT"}

OpenDepths == {Whole(20), Whole(24)}

OpenWidths == {Whole(10), Whole(12)}

OpenFlanges == {Whole(2)}

OpenWebs == {Whole(1)}

\* The root radius: not given, or none.
Radii == {Rat(NaN, 1), Whole(0)}

\* Rectangular plates, each a depth d and a width b.
PlateSizes ==
    {<<Whole(10), Whole(10)>>, <<Whole(16), Whole(10)>>,
     <<Whole(100), Whole(125)>>, <<Whole(163), Whole(125)>>,
     <<Whole(10), Rat(257, 16)>>, <<Whole(100), Rat(257, 16)>>,
     <<Rat(513, 32), Whole(10)>>, <<Rat(513, 32), Whole(12)>>}

\* sig_figs: the default, or no rounding.
SigFigs == {4, 0}

GeomInit ==
    /\ featured = Idle
    /\ section = Idle
    /\ conn = Idle
    /\ mem = Idle
    /\ material = Idle
    /\ component = Idle
    /\ geometry \in
         {NewGeometry(st, d, b, t_f, t_w, r_1, sf) :
             st \in GeometryTags, d \in OpenDepths, b \in OpenWidths,
             t_f \in OpenFlanges, t_w \in OpenWebs, r_1 \in Radii,
             sf \in SigFigs}
         \cup
         {NewGeometry("RectPlate", s[1], s[2], Rat(NaN, 1), Rat(NaN, 1),
                      Rat(NaN, 1), sf) :
             s \in PlateSizes, sf \in SigFigs}

\* __post_init__ and the head of solve_shape: no shape is solved for the
\* empty section type; otherwise the shape module is chosen, or the
\* construction fails, and the centroid of a channel or of a tee is set.
PostInit ==
    /\ geometry.pc = "post_init"
    /\ geometry' =
         IF geometry.sec_type = "" THEN [geometry EXCEPT !.pc = "done"]
         ELSE LET fn == shape_fn(geometry.sec_type)
              IN  IF fn.err # ""
                  THEN [geometry EXCEPT !.pc = "error", !.err = fn.err]
                  ELSE [geometry EXCEPT
                          !.pc = "shape",
                          !.x_c = IF fn.v = "cshape"
                                  THEN cshape_x_c(geometry) ELSE @,
                          !.y_c = IF fn.v = "tshape"
                                  THEN tshape_y_c(geometry) ELSE @]
    /\ UNCHANGED <<conn, mem, material, component, featured, section>>

\* SectionGeometry._Z_x and _Z_y
WithModuli(q) ==
    [q EXCEPT !.Z_x = RQuot(q.I_x, y_max(q)),
              !.Z_y = RQuot(q.I_y, x_max(q))]

\* solve_shape: the gross properties and the elastic moduli.
WithGrossProperties(p) == WithModuli(WithShape(shape_fn(p.sec_type).v, p))

GrossProperties ==
    /\ geometry.pc = "shape"
    /\ geometry' = [WithGrossProperties(geometry) EXCEPT !.pc = "round"]
    /\ UNCHANGED <<conn, mem, material, component, featured, section>>

GeometryNumbers ==
    {"d", "b", "t_f", "t_w", "r_1", "A_g", "I_x", "I_y", "S_x", "S_y",
     "Z_x", "Z_y", "x_c", "y_c"}

\* No rounding at all.
Unrounded(p) == p

\* solve_shape: every number of the object that is neither NaN nor zero
\* is rounded to sig_figs significant figures, when sig_figs is not zero.
RoundedGeometry(p) ==
    IF p.sig_figs = 0 THEN p
    ELSE [k \in DOMAIN p |->
            IF k \in GeometryNumbers THEN RoundSigRat(p[k], p.sig_figs)
            ELSE p[k]]

RoundGeometry ==
    /\ geometry.pc = "round"
    /\ geometry' = [RoundedGeometry(geometry) EXCEPT !.pc = "done"]
    /\ UNCHANGED <<conn, mem, material, component, featured, section>>

GeomNext ==
    \/ PostInit
    \/ GrossProperties
    \/ RoundGeometry

SpecGeometry == GeomInit /\ [][GeomNext]_vars


---------------------------------------------------------------------------
(* Properties of the section geometry                                      *)

\* The family tags with a shape function.
SupportedTags ==
    {"CHS", "RHS", "SHS", "WB", "WC", "UB", "UC", "PFC", "BT", "CT",
     "RectPlate"}

\* C14: the construction of a SectionGeometry whose sec_type is not a
\* supported family tag, the empty tag included, ends in the error of an
\* unsupported section family and never in a geometry object, whose gross
\* properties would be NaN; and the slenderness classifier accepts every
\* tag that the shape calculator accepts.
C14_UnsupportedTagRaises ==
    /\ (/\ geometry.pc \in {"done", "error"}
        /\ geometry.sec_type \notin SupportedTags) =>
           /\ geometry.pc = "error"
           /\ geometry.err = "NotImplementedError: no shape function"
    /\ geometry.pc # "idle" =>
           \A tag \in SupportedTags \cup {geometry.sec_type} :
               shape_fn(tag).err = "" => components_method(tag).err = ""


\* The shape modules whose formulas have a fillet radius.
RadiusFamilies == {"ishape", "cshape", "tshape"}

GrossNames == {"A_g", "I_x", "I_y", "S_x", "S_y", "Z_x", "Z_y"}

\* The gross properties of the same section with a radius of zero, at the
\* same point of the construction.
ZeroRadiusTwin(g) ==
    LET z == WithGrossProperties([g EXCEPT !.r_1 = Whole(0)])
    IN  IF g.pc = "done" THEN RoundedGeometry(z) ELSE z

\* C15: in the families with a fillet radius (I-shape, channel, tee) the
\* gross properties computed with the radius not given (NaN) are finite
\* and equal to those computed with a radius of zero.
C15_NoRadiusIsZeroRadius ==
    (/\ geometry.pc \in {"round", "done"}
     /\ geometry.sec_type # ""
     /\ shape_fn(geometry.sec_type).v \in RadiusFamilies
     /\ RNaN(geometry.r_1)) =>
        \A k \in GrossNames :
            /\ ~RNaN(geometry[k])
            /\ geometry[k] = ZeroRadiusTwin(geometry)[k]


\* The number stored for x by a construction with sig_figs significant
\* figures: x itself when sig_figs is zero.
Stored(x, sig_figs) == IF sig_figs = 0 THEN x ELSE RoundSigRat(x, sig_figs)

PlateBeforeRounding ==
    geometry.pc = "round" /\ geometry.sec_type = "RectPlate"

\* C19 as stated: a rectangular plate of width b and depth d stores
\* A_g = b * d and I_x = b * d^3 / 12 exactly, and stores the b and the d
\* that were supplied.
C19_PlateStoredExactly ==
    [][PlateBeforeRounding =>
         /\ geometry'.A_g = RTimes(geometry.b, geometry.d)
         /\ geometry'.I_x = Over(RTimes(geometry.b, RCube(geometry.d)), 12)
         /\ geometry'.b = geometry.b
         /\ geometry'.d = geometry.d]_vars

\* C19: for a rectangular plate of width b and depth d the shape formulas
\* give A_g = b * d and I_x = b * d^3 / 12 exactly, and the object stores
\* these two numbers, b and d each rounded to sig_figs significant
\* figures (4 by default), unrounded when sig_figs is zero.
C19_PlateStoredRounded ==
    [][PlateBeforeRounding =>
         /\ geometry.A_g = RTimes(geometry.b, geometry.d)
         /\ geometry.I_x = Over(RTimes(geometry.b, RCube(geometry.d)), 12)
         /\ geometry'.A_g = Stored(RTimes(geometry.b, geometry.d),
                                   geometry.sig_figs)
         /\ geometry'.I_x = Stored(Over(RTimes(geometry.b,
                                               RCube(geometry.d)), 12),
                                   geometry.sig_figs)
         /\ geometry'.b = Stored(geometry.b, geometry.sig_figs)
         /\ geometry'.d = Stored(geometry.d, geometry.sig_figs)]_vars

\* The plate of depth 16 and width 10 stores I_x = 3413, which is not
\* 10 * 16^3 / 12 = 3413.33..
C19_PlateInertiaRounded ==
    /\ geometry.pc = "done"
    /\ geometry.sec_type = "RectPlate"
    /\ geometry.sig_figs = 4
    /\ geometry.d = Whole(16)
    /\ geometry.b = Whole(10)
    /\ geometry.A_g = Whole(160)
    /\ geometry.I_x = Whole(3413)
    /\ geometry.I_x # Over(RTimes(geometry.b, RCube(geometry.d)), 12)


\* C20: a doubly symmetric I-shape (UB, UC, WB or WC) of flange width b
\* exposes the centroid offset x_c = b / 2 after its construction.
C20_IShapeCentroidAtHalfWidth ==
    (/\ geometry.pc = "done"
     /\ geometry.sec_type \in {"UB", "UC", "WB", "WC"}) =>
        geometry.x_c = Over(geometry.b, 2)


---------------------------------------------------------------------------
(* Construction and serialisation of the connector components              *)
(* (component/bolt.py, weld.py, plate.py)                                  *)
(*                                                                         *)
(* Bolt diameters are held in thousandths of a millimetre inside the area  *)
(* formulas, areas in 1e-6 mm^2, bolt capacities in tenths of a newton     *)
(* (927000 stands for 92.7 kN), weld capacities in 1e-4 kN/mm.             *)
(* pi / 4 is 355 / 452.  A formatted string is the tuple of its parts, a   *)
(* JSON object is the record of its keys.                                  *)

UnknownPitch == Raise("ValueError: Unknown pitch for current bolt diameter")

UnknownBoltCategory == Raise("ValueError: Unknown f_uf for current bolt category")

\* Faulty variant: the M16 pitch entered as 20 instead of 2.
MistypedPitch(d_f) ==
    CASE d_f = 12 -> Return(175)
      [] d_f = 16 -> Return(2000)
      [] d_f = 20 -> Return(250)
      [] d_f = 24 -> Return(300)
      [] d_f = 30 -> Return(350)
      [] d_f = 36 -> Return(400)
      [] OTHER -> UnknownPitch

\* Bolt.P: thread pitch in hundredths of a millimetre.
P(d_f) ==
    CASE d_f = 12 -> Return(175)
      [] d_f = 16 -> Return(200)
      [] d_f = 20 -> Return(250)
      [] d_f = 24 -> Return(300)
      [] d_f = 30 -> Return(350)
      [] d_f = 36 -> Return(400)
      [] OTHER -> UnknownPitch

\* pi / 4 * diameter^2, the diameter in thousandths of a millimetre.
CircleArea(dia) == MulDiv(dia * dia, 355, 452)

\* Bolt.A_c: pi / 4 * (d_f - 1.22687 P)^2
A_c(d_f) == CircleArea(d_f * 1000 - RoundDiv(122687 * P(d_f).v, 10000))

\* Bolt.A_s: pi / 4 * (d_f - 0.9382 P)^2
A_s(d_f) == CircleArea(d_f * 1000 - RoundDiv(9382 * P(d_f).v, 1000))

\* Bolt.A_o: pi / 4 * d_f^2
A_o(d_f) == CircleArea(d_f * 1000)

\* Bolt.f_uf, keyed by the first three characters of the category.
f_uf(bolt_cat) ==
    CASE bolt_cat \in {"4.6/S"} -> Return(400)
      [] bolt_cat \in {"8.8/S", "8.8/TB", "8.8/TF"} -> Return(830)
      [] OTHER -> UnknownBoltCategory

\* stress * area / 1e3 in tenths of a newton.
StressOnArea(stress, area) == MulDiv(area \div 1000, stress, 100)

\* Bolt.N_tf = A_s * f_uf / 1e3
N_tf(d_f, bolt_cat) == StressOnArea(f_uf(bolt_cat).v, A_s(d_f))

\* Bolt.V_fx = 0.62 * f_uf * k_r * A_o / 1e3
V_fx(d_f, bolt_cat) == (62 * StressOnArea(f_uf(bolt_cat).v, A_o(d_f))) \div 100

\* Bolt.V_fn = 0.62 * f_uf * k_r * A_c / 1e3
V_fn(d_f, bolt_cat) == (62 * StressOnArea(f_uf(bolt_cat).v, A_c(d_f))) \div 100

\* json.dumps of a dict: a str that holds the object.
json_dumps(obj) == [json |-> obj]

\* json.loads of such a str: the dict.
json_loads(s) == s.json

\* type(v) is str
IsStr(v) == DOMAIN v = {"json"}

\* The rounding loop of __post_init__ on one float attribute; `if
\* self.sig_figs:` skips the loop when sig_figs is 0.
RoundFloat(v, sig_figs) == IF sig_figs = 0 THEN v ELSE RoundSig(v, sig_figs)

\* The Bolt that __post_init__ leaves once the capacities are known.
BoltObject(d_f, bolt_cat, threads_included, sig_figs, V_f, N) ==
    [d_f |-> d_f, bolt_cat |-> bolt_cat,
     threads_included |-> threads_included,
     name |-> <<"M", d_f, bolt_cat, IF threads_included THEN "(TI)" ELSE "(TX)">>,
     bolt_des |-> <<"M", d_f>>,
     d_h |-> d_f + (IF d_f <= 24 THEN 2 ELSE 3),
     a_e_min |-> RoundFloat((3 * d_f) \div 2, sig_figs),
     s_p_min |-> RoundFloat((5 * d_f) \div 2, sig_figs),
     phiV_f |-> RoundFloat((8 * V_f) \div 10, sig_figs),
     phiN_tf |-> RoundFloat((8 * N) \div 10, sig_figs),
     constr |-> json_dumps([d_f |-> d_f, bolt_cat |-> bolt_cat,
                            threads_included |-> threads_included]),
     sig_figs |-> sig_figs]

\* Bolt(d_f, bolt_cat, threads_included, sig_figs): __post_init__.  The
\* capacity reads f_uf before the area, and the area reads the pitch.
NewBolt(d_f, bolt_cat, threads_included, sig_figs) ==
    IF f_uf(bolt_cat).err # "" THEN f_uf(bolt_cat)
    ELSE IF P(d_f).err # "" THEN P(d_f)
    ELSE Return(BoltObject(d_f, bolt_cat, threads_included, sig_figs,
                           IF threads_included THEN V_fn(d_f, bolt_cat)
                           ELSE V_fx(d_f, bolt_cat),
                           N_tf(d_f, bolt_cat)))

\* Bolt(**attr_dict): the keys of the dict, every other field at its default.
Bolt_from_dictargs(attr_dict) ==
    NewBolt(attr_dict.d_f, attr_dict.bolt_cat, attr_dict.threads_included, 3)

\* Bolt.from_constr
Bolt_from_constr(constructor_str) == Bolt_from_dictargs(json_loads(constructor_str))

\* The loop of from_dict: setattr on a default-constructed object for each
\* key that is an attribute; nothing is recomputed afterwards.
SetAttrs(o, kwargs) ==
    [k \in DOMAIN o |-> IF k \in DOMAIN kwargs THEN kwargs[k] ELSE o[k]]

\* Bolt.from_dict
Bolt_from_dict(kwargs) == Return(SetAttrs(NewBolt(20, "8.8/S", TRUE, 3).v, kwargs))

UnknownWeldCategory == Raise("ValueError: Unknown capacity factor phi for current weld category")

UnknownWeldClass == Raise("ValueError: Unknown f_uw for current weld class")

\* Weld.phi in hundredths.
Weld_phi(weld_cat) ==
    CASE weld_cat = "SP" -> Return(80)
      [] weld_cat = "GP" -> Return(60)
      [] OTHER -> UnknownWeldCategory

\* Weld.f_uw
f_uw(weld_class) ==
    CASE weld_class \in {"E41XX", "W40X"} -> Return(410)
      [] weld_class \in {"E48XX", "W50X"} -> Return(480)
      [] OTHER -> UnknownWeldClass

\* Weld.phi * Weld.v_w = phi * 0.6 * f_uw * k_r * (t_w / 2^0.5) / 1e3
Weld_phiv_w(t_w, weld_cat, weld_class) ==
    MulDiv(Weld_phi(weld_cat).v * 6 * f_uw(weld_class).v * t_w, 1000, 141421)

\* Weld(t_w, weld_type, weld_cat, weld_class, sig_figs): __post_init__.
NewWeld(t_w, weld_type, weld_cat, weld_class, sig_figs) ==
    IF Weld_phi(weld_cat).err # "" THEN Weld_phi(weld_cat)
    ELSE IF f_uw(weld_class).err # "" THEN f_uw(weld_class)
    ELSE Return([t_w |-> t_w, weld_type |-> weld_type, weld_cat |-> weld_cat,
                 weld_class |-> weld_class,
                 name |-> <<t_w, "mm", weld_type, weld_cat, weld_class>>,
                 constr |-> json_dumps([t_w |-> t_w, weld_type |-> weld_type,
                                        weld_cat |-> weld_cat,
                                        weld_class |-> weld_class]),
                 phiv_w |-> RoundFloat(Weld_phiv_w(t_w, weld_cat, weld_class), sig_figs),
                 sig_figs |-> sig_figs])

\* Weld.from_constr
Weld_from_constr(constructor_str) ==
    NewWeld(json_loads(constructor_str).t_w, json_loads(constructor_str).weld_type,
            json_loads(constructor_str).weld_cat, json_loads(constructor_str).weld_class, 3)

\* Weld.from_dict
Weld_from_dict(kwargs) == Return(SetAttrs(NewWeld(6, "CFW", "SP", "E48XX", 3).v, kwargs))

\* The exceptions of the lookups that are a ValueError.
ValueErrors == {UnknownGrade.err, MissingThickness.err}

\* calc_mat_prop: `"Section" in mat_type or "Bar" in mat_type`, then
\* `"Plate" in mat_type`; with neither, f_y is read unassigned.
calc_mat_prop(mat_type, grade, t) ==
    IF mat_type \in {"HotRolledSection", "WeldedSection", "HollowSection", "HotRolledBar"}
    THEN IF AS3679_sections_fy(grade, t).err # "" THEN AS3679_sections_fy(grade, t)
         ELSE IF AS3679_sections_fu(grade, NaN).err # "" THEN AS3679_sections_fu(grade, NaN)
         ELSE Return(<<AS3679_sections_fy(grade, t).v, AS3679_sections_fu(grade, NaN).v>>)
    ELSE IF mat_type \in {"Plate", "HotRolledPlate", "PressurePlate"}
    THEN IF AS3678_fy(grade, t).err # "" THEN AS3678_fy(grade, t)
         ELSE IF AS3678_fu(grade, NaN).err # "" THEN AS3678_fu(grade, NaN)
         ELSE Return(<<AS3678_fy(grade, t).v, AS3678_fu(grade, NaN).v>>)
    ELSE Unbound

\* The Plate that __post_init__ leaves once the strengths are known; plate
\* is <<plate[:-6], plate[-5:]>>.  f_yi and f_ui are ints, which the
\* rounding loop passes over.
PlateObject(b_i, t_i, plate, sig_figs, f_yi, f_ui) ==
    [b_i |-> b_i, t_i |-> t_i, plate |-> plate,
     name |-> <<b_i, "mm x", t_i, "mm", plate>>,
     constr |-> json_dumps([b_i |-> b_i, t_i |-> t_i, plate |-> plate]),
     plate_type |-> plate[1], plate_grade |-> plate[2],
     f_yi |-> f_yi, f_ui |-> f_ui, sig_figs |-> sig_figs]

\* Plate(b_i, t_i, plate, sig_figs): __post_init__.  A ValueError of the
\* lookup is caught and leaves NaN strengths, which the rounding loop (run
\* unless sig_figs is 0) cannot round: floor(log10(nan)) raises.
NewPlate(b_i, t_i, plate, sig_figs) ==
    IF calc_mat_prop(plate[1], plate[2], t_i).err \in ValueErrors
    THEN IF sig_figs # 0 THEN Raise("ValueError: cannot convert float NaN to integer")
         ELSE Return(PlateObject(b_i, t_i, plate, sig_figs, NaN, NaN))
    ELSE IF calc_mat_prop(plate[1], plate[2], t_i).err # ""
    THEN calc_mat_prop(plate[1], plate[2], t_i)
    ELSE Return(PlateObject(b_i, t_i, plate, sig_figs,
                            calc_mat_prop(plate[1], plate[2], t_i).v[1],
                            calc_mat_prop(plate[1], plate[2], t_i).v[2]))

\* Plate.from_constr
Plate_from_constr(constructor_str) ==
    NewPlate(json_loads(constructor_str).b_i, json_loads(constructor_str).t_i,
             json_loads(constructor_str).plate, 3)

\* Plate.from_dict
Plate_from_dict(kwargs) ==
    Return(SetAttrs(NewPlate(200, 10, <<"Plate", "GR250">>, 3).v, kwargs))

\* hasattr(v, "name"): true of a Bolt, false of a dict.
HasName(v) == "name" \in DOMAIN v

\* The BoltGroup2D that __post_init__ leaves for a Bolt object:
\* d_i_min = 2 * (1.5 * bolt.d_f) + (n_p - 1) * s_p,
\* phiV_df = round(n_b * bolt.phiV_f, 2).
BoltGroupObject(n_p, n_g, bolt, s_p, s_g, sig_figs) ==
    [n_p |-> n_p, n_g |-> n_g, bolt |-> bolt, s_p |-> s_p, s_g |-> s_g,
     name |-> <<n_p, "x", n_g, s_p, "p x", s_g, "g", bolt.name>>,
     constr |-> json_dumps([n_p |-> n_p, n_g |-> n_g,
                            bolt |-> json_loads(bolt.constr),
                            s_p |-> s_p, s_g |-> s_g]),
     n_b |-> n_p * n_g,
     d_i_min |-> RoundFloat(3 * bolt.d_f + (n_p - 1) * s_p, sig_figs),
     phiV_df |-> RoundFloat(100 * RoundDiv(n_p * n_g * bolt.phiV_f, 100), sig_figs),
     sig_figs |-> sig_figs]

\* BoltGroup2D(n_p, n_g, bolt, s_p, s_g, sig_figs): __post_init__.  Only a
\* str is turned into a Bolt; self.bolt.name is read next.
NewBoltGroup2D(n_p, n_g, bolt, s_p, s_g, sig_figs) ==
    IF IsStr(bolt)
    THEN IF Bolt_from_constr(bolt).err # "" THEN Bolt_from_constr(bolt)
         ELSE Return(BoltGroupObject(n_p, n_g, Bolt_from_constr(bolt).v, s_p, s_g, sig_figs))
    ELSE IF ~HasName(bolt)
    THEN Raise("AttributeError: 'dict' object has no attribute 'name'")
    ELSE Return(BoltGroupObject(n_p, n_g, bolt, s_p, s_g, sig_figs))

\* BoltGroup2D.from_constr: BoltGroup2D(**json.loads(constructor_str)).
BoltGroup2D_from_constr(constructor_str) ==
    NewBoltGroup2D(json_loads(constructor_str).n_p, json_loads(constructor_str).n_g,
                   json_loads(constructor_str).bolt, json_loads(constructor_str).s_p,
                   json_loads(constructor_str).s_g, 3)

\* The calls the construction is driven with.  22 is a diameter without a
\* pitch, 10.9/S a category without a strength, XP and E55XX a weld category
\* and class without a factor, GR999 an unknown grade and Flat a product
\* that is neither a section nor a plate.
BoltDiameters == {12, 16, 20, 22, 24, 30, 36}

BoltCategories == {"8.8/S", "4.6/S", "10.9/S"}

ComponentSigFigs == {3, 2, 0}

WeldLegs == {6, 8, 10}

WeldCategories == {"SP", "GP", "XP"}

WeldClasses == {"E48XX", "E41XX", "E55XX"}

PlateNames ==
    {<<"Plate", "GR250">>, <<"Plate", "GR350">>, <<"Plate", "GR450">>,
     <<"Plate", "GR999">>, <<"Flat", "GR250">>}

PlateGauges == {8, 10, 200}

\* Keyword arguments of from_dict, one attribute each.
BoltOverrides ==
    {<<"bolt_cat", "8.8/S">>, <<"d_f", 16>>, <<"phiV_f", 1000000>>, <<"sig_figs", 2>>}

WeldOverrides == {<<"weld_cat", "SP">>, <<"t_w", 8>>, <<"phiv_w", 10000>>}

PlateOverrides == {<<"t_i", 10>>, <<"b_i", 180>>, <<"f_yi", 300>>}

\* The bolt argument of a bolt group: a Bolt, or the constr of one.
GroupBolts ==
    {NewBolt(20, "8.8/S", TRUE, 3).v, NewBolt(16, "4.6/S", FALSE, 2).v,
     NewBolt(24, "8.8/S", TRUE, 3).v.constr}

Call(cls, via, args) ==
    [pc |-> "new", cls |-> cls, via |-> via, args |-> args,
     x |-> Idle, y |-> Idle, err |-> ""]

Calls ==
    {Call("Bolt", "init", [d_f |-> d, bolt_cat |-> c, threads_included |-> ti, sig_figs |-> s]) :
        <<d, c, ti, s>> \in BoltDiameters \X BoltCategories \X BOOLEAN \X ComponentSigFigs}
    \cup {Call("Weld", "init", [t_w |-> t, weld_type |-> "CFW", weld_cat |-> c, weld_class |-> k, sig_figs |-> s]) :
        <<t, c, k, s>> \in WeldLegs \X WeldCategories \X WeldClasses \X ComponentSigFigs}
    \cup {Call("Plate", "init", [b_i |-> 180, t_i |-> t, plate |-> p, sig_figs |-> s]) :
        <<t, p, s>> \in PlateGauges \X PlateNames \X ComponentSigFigs}
    \cup {Call("BoltGroup2D", "init", [n_p |-> n, n_g |-> g, bolt |-> b, s_p |-> 70, s_g |-> 70, sig_figs |-> s]) :
        <<n, g, b, s>> \in (1..MaxRows) \X {1, 2} \X GroupBolts \X ComponentSigFigs}
    \cup {Call("Bolt", "from_dict", kw) : kw \in BoltOverrides}
    \cup {Call("Weld", "from_dict", kw) : kw \in WeldOverrides}
    \cup {Call("Plate", "from_dict", kw) : kw \in PlateOverrides}

CompInit ==
    /\ featured = Idle
    /\ section = Idle
    /\ conn = Idle
    /\ mem = Idle
    /\ material = Idle
    /\ geometry = Idle
    /\ component \in Calls

\* cls(**args)
Constructed(cls, a) ==
    CASE cls = "Bolt" -> NewBolt(a.d_f, a.bolt_cat, a.threads_included, a.sig_figs)
      [] cls = "Weld" -> NewWeld(a.t_w, a.weld_type, a.weld_cat, a.weld_class, a.sig_figs)
      [] cls = "Plate" -> NewPlate(a.b_i, a.t_i, a.plate, a.sig_figs)
      [] cls = "BoltGroup2D" -> NewBoltGroup2D(a.n_p, a.n_g, a.bolt, a.s_p, a.s_g, a.sig_figs)

\* cls.from_dict(**{k: v})
Overridden(cls, kw) ==
    CASE cls = "Bolt" -> Bolt_from_dict(kw[1] :> kw[2])
      [] cls = "Weld" -> Weld_from_dict(kw[1] :> kw[2])
      [] cls = "Plate" -> Plate_from_dict(kw[1] :> kw[2])

\* cls.from_constr(constructor_str)
Reconstructed(cls, constructor_str) ==
    CASE cls = "Bolt" -> Bolt_from_constr(constructor_str)
      [] cls = "Weld" -> Weld_from_constr(constructor_str)
      [] cls = "Plate" -> Plate_from_constr(constructor_str)
      [] cls = "BoltGroup2D" -> BoltGroup2D_from_constr(constructor_str)

\* The outcome r of a call, kept in field f: the object, or the exception.
Outcome(c, f, r, ok, failed) ==
    IF r.err = "" THEN [c EXCEPT !.pc = ok, ![f] = r.v]
    ELSE [c EXCEPT !.pc = failed, !.err = r.err]

\* x = cls(...)
Construct ==
    /\ component.pc = "new"
    /\ component.via = "init"
    /\ component' = Outcome(component, "x", Constructed(component.cls, component.args), "built", "error")
    /\ UNCHANGED <<conn, mem, material, geometry, featured, section>>

\* x = cls.from_dict(...)
from_dict ==
    /\ component.pc = "new"
    /\ component.via = "from_dict"
    /\ component' = Outcome(component, "x", Overridden(component.cls, component.args), "built", "error")
    /\ UNCHANGED <<conn, mem, material, geometry, featured, section>>

\* y = cls.from_constr(x.constr)
from_constr ==
    /\ component.pc = "built"
    /\ component' = Outcome(component, "y", Reconstructed(component.cls, component.x.constr), "rebuilt", "failed")
    /\ UNCHANGED <<conn, mem, material, geometry, featured, section>>

CompNext == Construct \/ from_dict \/ from_constr

SpecComponent == CompInit /\ [][CompNext]_vars


---------------------------------------------------------------------------
(* Properties of the component serialisation                               *)

\* C16: for every Bolt, Weld and Plate x that was constructed, by the
\* constructor with any sig_figs or by from_dict, from_constr(x.constr)
\* succeeds and returns an object equal to x in every attribute.
C16_RoundTripReproduces ==
    (/\ component.cls \in {"Bolt", "Weld", "Plate"}
     /\ component.pc \in {"rebuilt", "failed"}) =>
        /\ component.pc = "rebuilt"
        /\ component.y = component.x


\* C17: for every constructed BoltGroup2D g, BoltGroup2D.from_constr(g.constr)
\* succeeds and returns a group whose bolt is a Bolt object and whose name,
\* n_b, d_i_min, phiV_df and constr equal those of g.
C17_GroupRoundTripReproduces ==
    (/\ component.cls = "BoltGroup2D"
     /\ component.pc \in {"rebuilt", "failed"}) =>
        /\ component.pc = "rebuilt"
        /\ HasName(component.y.bolt)
        /\ component.y.name = component.x.name
        /\ component.y.n_b = component.x.n_b
        /\ component.y.d_i_min = component.x.d_i_min
        /\ component.y.phiV_df = component.x.phiV_df
        /\ component.y.constr = component.x.constr

SupportedDiameters == {d \in BoltDiameters : P(d).err = ""}

\* C18: for a bolt built by the constructor, every larger supported diameter
\* of the same category and thread condition has nominal capacities V_fn,
\* V_fx and N_tf, and stored design capacities phiV_f and phiN_tf (same
\* sig_figs), that are not smaller.
C18_CapacityMonotoneInDiameter ==
    (/\ component.cls = "Bolt"
     /\ component.via = "init"
     /\ component.pc = "built") =>
        \A d2 \in SupportedDiameters :
            component.x.d_f < d2 =>
                /\ V_fn(component.x.d_f, component.x.bolt_cat) <= V_fn(d2, component.x.bolt_cat)
                /\ V_fx(component.x.d_f, component.x.bolt_cat) <= V_fx(d2, component.x.bolt_cat)
                /\ N_tf(component.x.d_f, component.x.bolt_cat) <= N_tf(d2, component.x.bolt_cat)
                /\ component.x.phiV_f <= NewBolt(d2, component.x.bolt_cat, component.x.threads_included, component.x.sig_figs).v.phiV_f
                /\ component.x.phiN_tf <= NewBolt(d2, component.x.bolt_cat, component.x.threads_included, component.x.sig_figs).v.phiN_tf

\* An M30 bolt has been built whose stored capacities are below an M36's.
C18_SmallerBoltBuilt ==
    /\ component.cls = "Bolt"
    /\ component.via = "init"
    /\ component.pc = "built"
    /\ component.x.d_f = 30
    /\ component.x.sig_figs = 3
    /\ component.x.phiV_f < NewBolt(36, component.x.bolt_cat, component.x.threads_included, 3).v.phiV_f
    /\ component.x.phiN_tf < NewBolt(36, component.x.bolt_cat, component.x.threads_included, 3).v.phiN_tf


\* C21: whichever way a Bolt or a Plate was obtained (constructor, from_dict,
\* from_constr), its derived attributes are those the constructor computes
\* from the inputs the object holds now.
C21_DerivedFromCurrentInputs ==
    /\ (component.cls = "Bolt" /\ component.pc \in {"built", "rebuilt"}) =>
          \A k \in {"d_h", "a_e_min", "s_p_min", "phiV_f", "phiN_tf", "name", "constr"} :
              component.x[k] = NewBolt(component.x.d_f, component.x.bolt_cat, component.x.threads_included, component.x.sig_figs).v[k]
    /\ (component.cls = "Bolt" /\ component.pc = "rebuilt") =>
          \A k \in {"d_h", "a_e_min", "s_p_min", "phiV_f", "phiN_tf", "name", "constr"} :
              component.y[k] = NewBolt(component.y.d_f, component.y.bolt_cat, component.y.threads_included, component.y.sig_figs).v[k]
    /\ (component.cls = "Plate" /\ component.pc \in {"built", "rebuilt"}) =>
          \A k \in {"f_yi", "f_ui", "name"} :
              component.x[k] = NewPlate(component.x.b_i, component.x.t_i, component.x.plate, component.x.sig_figs).v[k]


---------------------------------------------------------------------------
(* Further properties of the section and the member                        *)

\* C22: when the section is slender about an axis, the effective modulus
\* about that axis is Z * (lam_sy / lam_s)^2 if the governing element is
\* supported on one edge with compression-to-tension loading, and
\* Z * lam_sy / lam_s otherwise; this for the major and for the minor axis.
C22_SlenderModulusByGoverningElement ==
    mem.pc = "solved" =>
        /\ mem.slenderness.compact_x = "S" =>
              mem.slenderness.Z_ex = Z_exslender(mem.geom.Z_x, Governing(mem.slenderness.components_x))
        /\ mem.slenderness.compact_y = "S" =>
              mem.slenderness.Z_ey = Z_exslender(mem.geom.Z_y, Governing(mem.slenderness.components_y))


---------------------------------------------------------------------------
(* Further properties of the connections                                   *)

\* C23: in the end-plate connection V_b is at most the plate bearing
\* capacity and at most the plate tear-out capacity, both in kN:
\* n_b * 0.9 * 3.2 * d_f * t_i * f_ui / 1000 and
\* n_b * 0.9 * a_ey * t_i * f_ui / 1000.
C23_EndPlateBoltModeInKilonewtons ==
    (/\ conn.conn_type = "FEP"
     /\ conn.pc \in {"round", "done"}
     /\ ~isnan(conn.plate.f_ui)) =>
        /\ 1000 * conn.V_b <= phiV_bb(conn.bolt_group.n_b, conn.bolt_group.bolt.d_f, conn.plate.t_i, conn.plate.f_ui)
        /\ 1000 * conn.V_b <= phiV_bt(conn.bolt_group.n_b, a_ey(conn.bolt_group, conn.a_ev_e), conn.plate.t_i, conn.plate.f_ui)


---------------------------------------------------------------------------
(* Construction of a featured member (connection/featured_member.py)       *)
(*                                                                         *)
(* The members are objects of a heap, so that a change made through one    *)
(* reference is seen through every reference to the same object.  The      *)
(* gross properties, the classification and the capacities of a member    *)
(* are functions of the section they were solved from, and each is         *)
(* recorded as that section.                                               *)

\* The dimensions that the shape, the slenderness and the capacities of a
\* member are solved from.
SectionOf(g) == <<g.sec_type, g.d, g.b, g.t_f, g.t_w, g.r_1>>

\* SteelMember(SteelSection(geom, mat, None)) on a solved geometry; the
\* name of the member is the name of its geometry.
SolvedMember(g) ==
    [name |-> g.name, sec_type |-> g.sec_type, d |-> g.d, b |-> g.b,
     t_f |-> g.t_f, t_w |-> g.t_w, r_1 |-> g.r_1, mat |-> g.mat,
     shape |-> SectionOf(g), classification |-> SectionOf(g),
     capacities |-> SectionOf(g)]

\* The members a caller holds: open sections 24 x 12 x 2 x 1 with no root
\* radius or with none given, and a plate 24 x 2, in GR300.
UnfeaturedMembers ==
    {SolvedMember([name |-> st, sec_type |-> st, d |-> 24, b |-> 12,
                   t_f |-> 2, t_w |-> 1, r_1 |-> r_1, mat |-> "GR300"]) :
        st \in {"UB", "UC", "WB"}, r_1 \in {0, NaN}}
    \cup
    {SolvedMember([name |-> "RectPlate", sec_type |-> "RectPlate",
                   d |-> 24, b |-> 2, t_f |-> NaN, t_w |-> NaN,
                   r_1 |-> NaN, mat |-> "GR300"])}

\* features, d_ct and d_cb given to the constructor.
Features == {"", "O", "SWC", "DWC", "TWC"}

TopCopes == {0, 4, 21}

BottomCopes == {0, 4}

\* A reference that holds no object yet.
NoObject == [name |-> "", sec_type |-> ""]

FeaturedInit ==
    /\ conn = Idle
    /\ mem = Idle
    /\ material = Idle
    /\ geometry = Idle
    /\ component = Idle
    /\ section = Idle
    /\ \E um \in UnfeaturedMembers, f \in Features, d_ct \in TopCopes, d_cb \in BottomCopes :
          featured = [pc |-> "post_init", err |-> "",
                      heap |-> [caller |-> um, copy |-> NoObject, coped |-> NoObject],
                      unfeatured_member |-> "caller", given |-> um,
                      features |-> f, cope_type |-> "O",
                      d_ct |-> d_ct, d_cb |-> d_cb, name |-> "",
                      section_name |-> "", member |-> "",
                      phiM_ss |-> <<>>, phiV_ws |-> <<>>]

\* _name_me: the features are 'O' when none is given, the cope type is
\* the feature of a coped member, and any other feature is an error.
name_me(fm) ==
    CASE fm.features \in {"", "O"} ->
           Return([fm EXCEPT !.features = "O",
                             !.name = <<fm.heap[fm.unfeatured_member].name, "O">>])
      [] fm.features \in {"SWC", "DWC"} ->
           Return([fm EXCEPT !.cope_type = fm.features,
                             !.name = <<fm.heap[fm.unfeatured_member].name, fm.features>>])
      [] OTHER -> Raise("ValueError: feature type is unknown")

NameMe ==
    /\ featured.pc = "post_init"
    /\ LET r == name_me(featured)
       IN  featured' =
             IF r.err # "" THEN [featured EXCEPT !.pc = "error", !.err = r.err]
             ELSE [r.v EXCEPT !.pc = "named",
                              !.section_name = featured.heap[featured.unfeatured_member].name]
    /\ UNCHANGED <<conn, mem, material, geometry, component, section>>

\* The same object under a second reference.
SameObject(heap, ref) == [heap |-> heap, ref |-> ref]

\* copy.deepcopy: a new object with the contents of the object copied.
deepcopy(heap, ref) ==
    [heap |-> [heap EXCEPT !.copy = heap[ref]], ref |-> "copy"]

\* self.member = deepcopy(self.unfeatured_member)
CopyMember ==
    /\ featured.pc = "named"
    /\ LET c == deepcopy(featured.heap, featured.unfeatured_member)
       IN  featured' = [featured EXCEPT
                          !.heap = c.heap, !.member = c.ref,
                          !.pc = IF featured.cope_type \in {"SWC", "DWC"}
                                 THEN "cope" ELSE "capacities"]
    /\ UNCHANGED <<conn, mem, material, geometry, component, section>>

\* _cope_me, the assignments to the geometry of self.member: the family
\* of the coped section, the name, the depth left by the copes and, for a
\* double cope, the width of the web.  A single cope of a section that is
\* neither a beam nor a column is an error before anything is assigned.
coped_geometry(g, cope_type, d_ct, d_cb) ==
    IF cope_type = "SWC"
    THEN IF g.sec_type \notin {"UB", "UC"}
         THEN Raise("ValueError: unknown coped section type")
         ELSE Return([g EXCEPT
                        !.sec_type = IF g.sec_type = "UB" THEN "BT" ELSE "BC",
                        !.name = <<g.name, "SWC">>,
                        !.d = g.d - d_ct])
    ELSE Return([g EXCEPT
                   !.sec_type = IF g.sec_type \in {"UB", "UC"}
                                THEN "RectPlate" ELSE g.sec_type,
                   !.name = <<g.name, "DWC">>,
                   !.d = g.d - d_ct - d_cb,
                   !.b = g.t_w])

CopeGeometry ==
    /\ featured.pc = "cope"
    /\ LET r == coped_geometry(featured.heap[featured.member],
                               featured.cope_type, featured.d_ct, featured.d_cb)
       IN  featured' =
             IF r.err # "" THEN [featured EXCEPT !.pc = "error", !.err = r.err]
             ELSE [featured EXCEPT !.heap[featured.member] = r.v,
                                   !.name = r.v.name, !.pc = "solve"]
    /\ UNCHANGED <<conn, mem, material, geometry, component, section>>

\* The dimensions of a geometry as the shape modules read them.
ShapeParams(g) ==
    [sec_type |-> g.sec_type, d |-> Whole(g.d), b |-> Whole(g.b),
     t_f |-> Whole(g.t_f), t_w |-> Whole(g.t_w), r_1 |-> Whole(g.r_1)]

\* PlateComponent.__post_init__ divides by the element slenderness
\* b / t * (f_y / 250) ** 0.5, which is zero for an element of no width.
ZeroWidthElement(g) ==
    CASE g.sec_type \in {"UB", "UC", "WB", "WC"} ->
           g.b - g.t_w = 0 \/ g.d - 2 * g.t_f = 0
      [] g.sec_type \in {"BT", "CT"} ->
           g.d - g.t_f = 0 \/ g.b - g.t_w = 0
      [] OTHER -> FALSE

\* SectionGeometry.Q_c of a tee, read by SteelMember._V_v: the centroid
\* stored by solve_shape is compared with the flange thickness; no
\* comparison with NaN holds.
Q_c_NotImplemented(g) ==
    /\ g.sec_type \in {"BT", "CT"}
    /\ LET y_c == RoundSigRat(tshape_y_c(ShapeParams(g)), 4)
       IN  \/ RNaN(y_c)
           \/ RLt(y_c, Whole(g.t_f))

\* _cope_me, from geom.from_dict to SteelMember(ss): the shape is solved
\* again, then the slenderness, then the member capacities.
coped_member(g) ==
    IF shape_fn(g.sec_type).err # "" THEN Raise(shape_fn(g.sec_type).err)
    ELSE IF ZeroWidthElement(g) THEN Raise("ZeroDivisionError")
    ELSE IF Q_c_NotImplemented(g)
         THEN Raise("NotImplementedError: Q_c for n.a. within flange")
         ELSE Return(SolvedMember(g))

SolveCoped ==
    /\ featured.pc = "solve"
    /\ LET r == coped_member(featured.heap[featured.member])
       IN  featured' =
             IF r.err # "" THEN [featured EXCEPT !.pc = "error", !.err = r.err]
             ELSE [featured EXCEPT !.heap.coped = r.v, !.member = "coped",
                                   !.pc = "capacities"]
    /\ UNCHANGED <<conn, mem, material, geometry, component, section>>

\* phiM_ss and phiV_ws are evaluated on self.member.
FeaturedCapacities ==
    /\ featured.pc = "capacities"
    /\ featured' = [featured EXCEPT
                      !.phiM_ss = featured.heap[featured.member].classification,
                      !.phiV_ws = featured.heap[featured.member].capacities,
                      !.pc = "done"]
    /\ UNCHANGED <<conn, mem, material, geometry, component, section>>

FeaturedNext ==
    \/ NameMe
    \/ CopyMember
    \/ CopeGeometry
    \/ SolveCoped
    \/ FeaturedCapacities

SpecFeatured == FeaturedInit /\ [][FeaturedNext]_vars

\* C24: the member given to the constructor is never changed by it: its
\* section type, its dimensions, its classification and its capacities
\* are those it was given with, whatever the cope type and whether the
\* construction succeeds or fails.
C24_UnfeaturedMemberUnchanged ==
    featured.heap[featured.unfeatured_member] = featured.given

\* A coped member has been built, on a section that differs from that of
\* the member given.
C24_CopedMemberBuilt ==
    /\ featured.pc = "done"
    /\ featured.cope_type \in {"SWC", "DWC"}
    /\ featured.heap[featured.member].d # featured.given.d
    /\ featured.heap[featured.member].capacities # featured.given.capacities

\* C25: a cope of a universal beam or column always succeeds, a single
\* web cope giving a tee of depth d - d_ct and a double web cope a
\* rectangular plate of depth d - d_ct - d_cb and width t_w, with the
\* capacities solved on the coped section; a cope of a member of any
\* other family is an error.
C25_CopeOfBeamOrColumnSucceeds ==
    (featured.pc \in {"done", "error"} /\ featured.cope_type \in {"SWC", "DWC"}) =>
        LET um == featured.given
            m == featured.heap[featured.member]
        IN  /\ um.sec_type \in {"UB", "UC"} =>
                  /\ featured.pc = "done"
                  /\ m.capacities = SectionOf(m)
                  /\ featured.cope_type = "SWC" =>
                        /\ m.sec_type \in {"BT", "CT"}
                        /\ m.d = um.d - featured.d_ct
                  /\ featured.cope_type = "DWC" =>
                        /\ m.sec_type = "RectPlate"
                        /\ m.d = um.d - featured.d_ct - featured.d_cb
                        /\ m.b = um.t_w
            /\ um.sec_type \notin {"UB", "UC"} => featured.pc = "error"


---------------------------------------------------------------------------
(* Construction of a steel section (member/member.py, SteelSection)        *)

\* SteelSlenderness(geom=geom, mat=mat): __post_init__ lists the
\* elements, solves the slenderness and rounds it; the object keeps the
\* geometry and the material it was given.
SteelSlenderness(geom, mat) ==
    [geom |-> geom, mat |-> mat]
        @@ RoundedSlenderness(
               Solved(geom, mat,
                      i_section_components(geom, mat) @@ NewSlenderness))

\* Python's None.
None == [type |-> "NoneType"]

\* SteelSlenderness(): without a geometry and a material nothing is
\* solved, and the attributes keep their defaults.
UnsolvedSlenderness == [geom |-> None, mat |-> None] @@ NewSlenderness

\* SteelSlenderness.from_dict(**kwargs): an unsolved object, on which
\* each keyword that names an attribute is set.
SteelSlenderness_from_dict(kwargs) == SetAttrs(UnsolvedSlenderness, kwargs)

\* The attributes of a slenderness object as a mapping, without its
\* geometry and material.
AsMapping(sl) == [k \in DOMAIN sl \ {"geom", "mat"} |-> sl[k]]

\* The sections a slenderness given by the caller was solved for.
OtherSections ==
    {<<g, m>> \in Geometries \X Materials :
        \/ g.d = 248 /\ g.sec_type = "UB" /\ m.f_y = 250 /\ m.res_stress = "HR"
        \/ g.d = 200 /\ g.sec_type = "WB" /\ m.res_stress = "HW"}

\* The slenderness argument of SteelSection: None, a mapping or an object.
SlendernessArguments ==
    {None}
    \cup {[type |-> "dict", items |-> kw] :
             kw \in {<<>>, [Z_ex |-> 1000, k_f |-> Rat(1, 2)]}
                    \cup {AsMapping(SteelSlenderness(s[1], s[2])) : s \in OtherSections}}
    \cup {[type |-> "SteelSlenderness", object |-> o] :
             o \in {UnsolvedSlenderness}
                   \cup {SteelSlenderness(s[1], s[2]) : s \in OtherSections}}

SectionInit ==
    /\ conn = Idle
    /\ mem = Idle
    /\ material = Idle
    /\ geometry = Idle
    /\ component = Idle
    /\ featured = Idle
    /\ section \in {[pc |-> "post_init", geom |-> g, mat |-> m, slenderness |-> a] :
                       g \in Geometries, m \in Materials, a \in SlendernessArguments}

\* SteelSection.__post_init__: a mapping is turned into an object by
\* from_dict, a missing slenderness is solved from the geometry and the
\* material of the section, an object is taken as it is; then the
\* geometry and the material of the section are assigned to it.
SteelSection_post_init(s) ==
    LET a == s.slenderness
        sl == CASE a.type = "dict" -> SteelSlenderness_from_dict(a.items)
                [] a.type = "NoneType" -> SteelSlenderness(s.geom, s.mat)
                [] OTHER -> a.object
    IN  [s EXCEPT !.slenderness = [sl EXCEPT !.geom = s.geom, !.mat = s.mat]]

SectionPostInit ==
    /\ section.pc = "post_init"
    /\ section' = [SteelSection_post_init(section) EXCEPT !.pc = "section"]
    /\ UNCHANGED <<conn, mem, material, geometry, component, featured>>

\* SteelMember(section): the capacities are evaluated on what the section
\* holds, with the default effective lengths, and rounded.
SectionMember ==
    /\ section.pc = "section"
    /\ section' =
         [RoundedMember(DesignCapacities(
              section @@ NewSteelMember(0, 0, 0, FALSE, FALSE, 100)))
            EXCEPT !.pc = "done"]
    /\ UNCHANGED <<conn, mem, material, geometry, component, featured>>

SectionNext ==
    \/ SectionPostInit
    \/ SectionMember

SpecSection == SectionInit /\ [][SectionNext]_vars

\* C26: whenever a member evaluates its capacities, and from then on, the
\* slenderness results it reads (Z_ex, Z_ey, k_f, alpha_b, alpha_v) are
\* those solved from the geometry and the material of its own section,
\* whether the slenderness was omitted, given as a mapping or given as an
\* object.
C26_SlendernessSolvedFromOwnSection ==
    section.pc \in {"section", "done"} =>
        \A k \in {"Z_ex", "Z_ey", "k_f", "alpha_b", "alpha_v"} :
            section.slenderness[k] = SteelSlenderness(section.geom, section.mat)[k]


---------------------------------------------------------------------------
(* The governing failure mode (connection/FEP.py, connection/WSP.py)       *)

\* Python's == on floats: NaN is equal to nothing, itself included.
PyEq(x, y) == ~isnan(x) /\ ~isnan(y) /\ x = y

\* The keys of the caps dictionary of govern_cap, in its order.
ModeNames(c) ==
    IF c.conn_type = "FEP"
    THEN <<"V_a", "V_b", "V_c", "V_d", "V_e", "V_f", "V_g">>
    ELSE <<"V_a", "V_b", "V_c", "V_d", "V_e", "V_f", "V_g", "V_h">>

\* The first of the given modes whose stored capacity is equal to the
\* stored V_des_all; "None" when the loop ends without a return.
FirstEqual(c, names) ==
    LET hits == {i \in 1..Len(names) : PyEq(c.V_des_all, c[names[i]])}
    IN  IF hits = {} THEN "None"
        ELSE names[CHOOSE i \in hits : \A j \in hits : i <= j]

\* Faulty variant: only the six modes of the published design capacity
\* are looked at.
govern_cap_SixModes(c) == FirstEqual(c, SubSeq(ModeNames(c), 1, 6))

\* govern_cap
govern_cap(c) == FirstEqual(c, ModeNames(c))

\* C27: for every constructed FEP or WSP connection govern_cap names a
\* failure mode, never nothing; the stored capacity of that mode is the
\* stored V_des_all and is not NaN, and no mode listed before it has a
\* stored capacity equal to V_des_all.
C27_GoverningModeNamed ==
    conn.pc = "done" =>
        \E i \in 1..Len(ModeNames(conn)) :
            /\ govern_cap(conn) = ModeNames(conn)[i]
            /\ ~isnan(conn[ModeNames(conn)[i]])
            /\ conn[ModeNames(conn)[i]] = conn.V_des_all
            /\ \A j \in 1..(i - 1) : conn[ModeNames(conn)[j]] # conn.V_des_all

\* A constructed connection with a NaN failure mode listed before the
\* mode that govern_cap names.
C27_ModeAfterNaNGoverns ==
    /\ conn.pc = "done"
    /\ \E i, j \in 1..Len(ModeNames(conn)) :
          /\ i < j
          /\ isnan(conn[ModeNames(conn)[i]])
          /\ govern_cap(conn) = ModeNames(conn)[j]


---------------------------------------------------------------------------
(* Further properties of the material                                      *)

\* The thicknesses at which the yield stress lookup of a material type
\* and grade returns a value.
Covered(mat_type, grade) ==
    {t \in PlateThicknesses \ {NaN} : f_y_of(mat_type, grade, t).err = ""}

\* C28: the thickness bands of the yield stress lookup are contiguous:
\* when the lookup returns a value at a smaller and at a greater
\* thickness, it returns a value at the thickness given.
C28_BandsContiguous ==
    [][(/\ material.pc = "t"
        /\ ~isnan(material.t)
        /\ \E t1, t2 \in Covered(material.mat_type, material.grade) :
              t1 < material.t /\ material.t < t2)
          => material'.err = ""]_vars


\* C29: for a bolt group of one or more rows in two columns the factors
\* Z_b and Z_ev are 1 at no eccentricity and, at the eccentricity e > 0 of
\* a web side plate connection, lie in (0, 1] while Z_eh is positive; the
\* eccentric bolt group shear is not above the concentric one, and V_b is
\* zero only if one of the capacities it is the least of is zero.
C29_ReductionFactorsPositive ==
    (conn.conn_type = "WSP" /\ conn.pc \in {"round", "done"}) =>
        LET bg == conn.bolt_group
            fm == conn.featured_member
            e == conn.e
            plate_bt(a_e) == phiV_bt(bg.n_b, a_e, conn.plate.t_i, conn.plate.f_ui)
            member_bt(a_e) == phiV_bt(bg.n_b, a_e, fm.member.t_w, fm.member.f_u)
        IN  /\ Z_b(bg, 0) = 1000
            /\ Z_ev(bg, 0) = 1000
            /\ e > 0 =>
                  /\ 0 < Z_b(bg, e) /\ Z_b(bg, e) <= 1000
                  /\ 0 < Z_ev(bg, e) /\ Z_ev(bg, e) <= 1000
                  /\ Z_eh(bg, e) > 0
            /\ phiV_df_ecc(bg, e) <= bg.phiV_df
            /\ conn.V_b = 0 =>
                  0 \in {bg.phiV_df,
                         phiV_bb(bg.n_b, bg.bolt.d_f, conn.plate.t_i, conn.plate.f_ui),
                         phiV_bb(bg.n_b, bg.bolt.d_f, fm.member.t_w, fm.member.f_u),
                         plate_bt(a_ey(bg, conn.a_ev_e)),
                         plate_bt(a_ex(bg, conn.a_eh_e)),
                         member_bt(a_ex(bg, conn.a_eh_e1)),
                         member_bt(a_ey(bg, conn.a_e4)),
                         member_bt(a_ey(bg, Min2(conn.a_e4, conn.a_e5)))}


\* Every element of a list is within its own plasticity limit.
AllWithinPlasticity(components) ==
    \A p \in Elements(components) : RLe(p.lam_e, Whole(p.lam_ep))

\* C30 as stated: a section classified compact about an axis has no
\* element, in that axis's list, whose slenderness is above its own
\* plasticity limit.
C30_CompactHasOnlyCompactElements ==
    Classified =>
        /\ mem.slenderness.compact_x = "C" =>
               AllWithinPlasticity(mem.slenderness.components_x)
        /\ mem.slenderness.compact_y = "C" =>
               AllWithinPlasticity(mem.slenderness.components_y)

\* What a compact classification says of the elements of a list: the
\* governing one is within its plasticity limit, every one is within its
\* yield limit.
CompactByGoverning(compact, components) ==
    compact = "C" =>
        /\ \A p \in Elements(components) :
               IsGoverning(p, components) => RLe(p.lam_e, Whole(p.lam_ep))
        /\ \A p \in Elements(components) : RLe(p.lam_e, Whole(p.lam_ey))

\* C30, amended: if a section is classified compact about an axis, the
\* element with the greatest lam_e / lam_ey of that axis's list is not
\* above its own plasticity limit, and every element of the list is
\* within its own yield limit; an element other than the governing one
\* may be above its own plasticity limit.
C30_CompactGoverningElementWithinPlasticity ==
    Classified =>
        /\ CompactByGoverning(mem.slenderness.compact_x,
                              mem.slenderness.components_x)
        /\ CompactByGoverning(mem.slenderness.compact_y,
                              mem.slenderness.components_y)

\* A section compact about x whose web governs while its flange outstand
\* is above the flange's plasticity limit.
C30_CompactWithNoncompactFlange ==
    /\ Classified
    /\ mem.slenderness.compact_x = "C"
    /\ \E p \in Elements(mem.slenderness.components_x) :
           /\ p.edge_sup = "One"
           /\ ~IsGoverning(p, mem.slenderness.components_x)
           /\ RLt(Whole(p.lam_ep), p.lam_e)

===========================================================================
